---- MODULE Spec2Model ----
(***************************************************************************)
(* A model of the connection engine of spectre-xenon/websocket: the frame  *)
(* loop of Conn.NextMessage, the control-frame handlers, Conn.SendMessage, *)
(* Conn.sendControl, Conn.closeWithErr and Conn.Close, with the masking    *)
(* primitive, the UTF-8 check and the permessage-deflate pipeline they     *)
(* call.  One connection is modelled; the peer and the network are the     *)
(* environment: it chooses each inbound frame, the outcome of each read    *)
(* and the outcome of each write.  That is the specification Spec.         *)
(* The functions that stand on their own (toggleMask, makeFrameHeadersBuf  *)
(* and parseFrameHeaders) are applied to inputs drawn from bounded sets in *)
(* the specification PureSpec, and the opening handshake (Upgrader and     *)
(* Dialer) is the specification HandshakeSpec.  WriteSpec has two callers  *)
(* write to one stream; FlateSpec has several connections take their       *)
(* deflater, inflater and sliding window from the pools of flate.go.       *)
(***************************************************************************)
EXTENDS Integers, Sequences, FiniteSets, TLC

VARIABLES
    isServer,        \* Conn.isServer
    cc,              \* Conn.cc: the CompressionConfig after newConn
    closed,          \* Conn.closed
    netClosed,       \* netConn.Close() has been called on Conn.netConn
    pc,              \* position of the caller of NextMessage
    initialHeaders,  \* NextMessage's local initialHeaders (fragment loop)
    initialPayload,  \* NextMessage's local initialPayload (fragment loop)
    nfrag,           \* data frames appended to initialPayload so far
    lastFrame,       \* the frame the last step read from Conn.br
    sent,            \* the writes the last step handed to netConn.Write
    ret,             \* what the last step returned to its caller
    inEOF,           \* the peer has closed its side: reads end with io.EOF
    buffered,        \* frames still held by Conn.br once netConn is closed
    closeCalls,      \* how many times Close() has been called
    flatterPuts,     \* how many times flatter.Close() returned the pipeline
    wireOp,          \* opcode of the first fragment of the message on the wire
    wirePayload,     \* concatenation of the fragments' payloads on the wire
    wireRSV1,        \* RSV1 of the first fragment, and of some continuation
    readIn,          \* where NextMessage stood when it read lastFrame
    applied,         \* PureSpec: a function applied, its arguments and results
    hs,              \* HandshakeSpec: the request, the response and both ends
    wr,              \* WriteSpec: two callers, the write lock and the wire
    fl               \* FlateSpec: the pools, the windows and the flatters

vars == << isServer, cc, closed, netClosed, pc, initialHeaders, initialPayload,
           nfrag, lastFrame, sent, ret, inEOF, buffered, closeCalls,
           flatterPuts, wireOp, wirePayload, wireRSV1, readIn, applied, hs, wr, fl >>

\* the variables of the connection engine, and those of the other
\* specifications
conn == << isServer, cc, closed, netClosed, pc, initialHeaders, initialPayload,
           nfrag, lastFrame, sent, ret, inEOF, buffered, closeCalls,
           flatterPuts, wireOp, wirePayload, wireRSV1, readIn >>

aside == << applied, hs, wr, fl >>

\* no function has been applied; no handshake has begun
NoCall == [ fn |-> "none" ]

NoHandshake == [ at |-> "none" ]

\* no caller writes
NoWrites == [ at |-> "none" ]

\* no flatter has been made
NoFlate == [ at |-> "none" ]

(***************************************************************************)
(* Bounds of the model.                                                    *)
(***************************************************************************)
\* data frames (first fragment and continuations) the peer puts in one message
MaxFrags == 2
\* frames Conn.br may still hold when netConn is closed
MaxBuffered == 1
\* calls of Close() on the connection
MaxCloseCalls == 2

(***************************************************************************)
(* Opcodes, close codes and limits of the frame layer.                     *)
(***************************************************************************)
ContinuationFrame == 0
TextMessage == 1
BinaryMessage == 2
RM3 == 3
CloseFrame == 8
PingFrame == 9
PongFrame == 10

CloseNormal == 1000
CloseGoingAway == 1001
CloseProtocolError == 1002
CloseUnknownData == 1003
CloseReserved == 1004
CloseNoStatus == 1005
CloseAbnormal == 1006
CloseMistachedPayloadData == 1007
ClosePolicyViolation == 1008
CloseFrameTooBig == 1009
CloseRequiredExtension == 1010
CloseInternalServerErr == 1011
CloseFailedTLS == 1015

maxControlFramePayloadSize == 125

\* a faulty variant of validCloseFrameCodes: 1005 reads true as well
validCloseFrameCodesNoStatus(code) ==
    code \in { CloseNormal, CloseGoingAway, CloseProtocolError, CloseUnknownData,
               CloseReserved, CloseNoStatus, CloseMistachedPayloadData,
               ClosePolicyViolation, CloseFrameTooBig, CloseRequiredExtension }

\* validCloseFrameCodes[code]: the keys the Go map holds with the value true;
\* a key it holds with false, or does not hold (1011 among them), reads false
validCloseFrameCodes(code) ==
    code \in { CloseNormal, CloseGoingAway, CloseProtocolError, CloseUnknownData,
               CloseReserved, CloseMistachedPayloadData, ClosePolicyViolation,
               CloseFrameTooBig, CloseRequiredExtension }

\* the application range of close codes (the constants are named in
\* handleCloseFrame; their declaration is not among the sources)
minNonCloseStatusCode == 3000
maxNonCloseStatusCode == 4999

isPingPongFrame(op) == op = PingFrame \/ op = PongFrame

isControlFrame(op) == op \in { CloseFrame, PingFrame, PongFrame }

(***************************************************************************)
(* Errors.                                                                 *)
(***************************************************************************)
NoErr == "nil"
ErrInvalidMessageType == "ErrInvalidMessageType"
ErrBadMessage == "ErrBadMessage"
ErrUtf8 == "ErrUtf8"
ErrNormalClose == "ErrNormalClose"
ErrUnexpectedClose == "ErrUnexpectedClose"
\* io.EOF / io.ErrUnexpectedEOF, any other I/O error, an error of the inflater
ErrEOF == "io.EOF"
ErrIO == "io.error"
ErrFlate == "flate.error"

isEOF(err) == err = ErrEOF

(***************************************************************************)
(* Bytes and the masking primitive.                                        *)
(***************************************************************************)
RECURSIVE XorBits(_, _, _)
\* a ^ b on n-bit unsigned integers
XorBits(a, b, n) ==
    IF n = 0 THEN 0
    ELSE ((a + b) % 2) + 2 * XorBits(a \div 2, b \div 2, n - 1)

\* binary.BigEndian.Uint16 and PutUint16
Uint16(s) == s[1] * 256 + s[2]

PutUint16(v) == << (v \div 256) % 256, v % 256 >>

\* word ^= mask32 on two big-endian 32-bit words, each held as its 4 bytes
\* (binary.BigEndian.Uint32 / PutUint32); the XOR is taken on the two 16-bit
\* halves, which keeps every intermediate value within the checker's integers
XorWord(wordSlice, maskingKey) ==
    PutUint16(XorBits(Uint16(SubSeq(wordSlice, 1, 2)), Uint16(SubSeq(maskingKey, 1, 2)), 16))
    \o PutUint16(XorBits(Uint16(SubSeq(wordSlice, 3, 4)), Uint16(SubSeq(maskingKey, 3, 4)), 16))

\* a faulty variant of toggleMask: the trailing bytes take the key one byte
\* further on
toggleMaskShifted(payload, maskingKey) ==
    LET payloadLen == Len(payload)
        numWords == payloadLen \div 4
        word(i) == XorWord(SubSeq(payload, 4 * i + 1, 4 * i + 4), maskingKey)
    IN  [ j \in 1..payloadLen |->
            IF j <= numWords * 4
            THEN word((j - 1) \div 4)[((j - 1) % 4) + 1]
            ELSE XorBits(payload[j], maskingKey[(j % 4) + 1], 8) ]

\* toggleMask: whole 4-byte words are XORed with the key as one big-endian
\* word, the 0..3 trailing bytes one by one with maskingKey[i%4].  The Go
\* function indexes maskingKey[0..3]; callers hand it a 4-byte key.
toggleMask(payload, maskingKey) ==
    LET payloadLen == Len(payload)
        numWords == payloadLen \div 4
        word(i) == XorWord(SubSeq(payload, 4 * i + 1, 4 * i + 4), maskingKey)
    IN  [ j \in 1..payloadLen |->
            IF j <= numWords * 4
            THEN word((j - 1) \div 4)[((j - 1) % 4) + 1]
            ELSE XorBits(payload[j], maskingKey[((j - 1) % 4) + 1], 8) ]

(***************************************************************************)
(* unicode/utf8.Valid.  The encoding is self-synchronising: a byte is a    *)
(* continuation byte (10xxxxxx) or the first byte of a code point, whose   *)
(* value gives the length of the code point and the range of its second    *)
(* byte (the tables first and acceptRanges of the library).  A string is   *)
(* valid when it starts on a first byte and every first byte is followed   *)
(* by exactly its continuation bytes.                                      *)
(***************************************************************************)
IsCont(b) == b >= 128 /\ b <= 191

\* the length of the code point a first byte announces, 0 for a byte that
\* starts none (C0, C1, F5..FF)
Utf8Size(b) ==
    IF b < 128 THEN 1
    ELSE IF b >= 194 /\ b <= 223 THEN 2
    ELSE IF b >= 224 /\ b <= 239 THEN 3
    ELSE IF b >= 240 /\ b <= 244 THEN 4
    ELSE 0

\* the range of the second byte: no overlong form, no surrogate, no code
\* point above U+10FFFF
Utf8Second(b, c) ==
    IF b = 224 THEN c >= 160 /\ c <= 191
    ELSE IF b = 237 THEN c >= 128 /\ c <= 159
    ELSE IF b = 240 THEN c >= 144 /\ c <= 191
    ELSE IF b = 244 THEN c >= 128 /\ c <= 143
    ELSE IsCont(c)

Utf8Valid(p) ==
    /\ Len(p) > 0 => ~IsCont(p[1])
    /\ \A i \in 1..Len(p) :
         ~IsCont(p[i]) =>
           LET size == Utf8Size(p[i])
           IN  /\ size > 0
               /\ i + size - 1 <= Len(p)
               /\ size > 1 => Utf8Second(p[i], p[i + 1])
               /\ \A j \in (i + 2)..(i + size - 1) : IsCont(p[j])
               /\ i + size <= Len(p) => ~IsCont(p[i + size])

(***************************************************************************)
(* The permessage-deflate pipeline.  compress/flate is a collaborator: it  *)
(* is modelled by a small LZ77 code with the same interface.  A compressed *)
(* stream is a sequence of tokens:                                         *)
(*   0 0 255 255     an empty stored block (what Flush ends its output by) *)
(*   1 0 0 255 255   the final empty block: end of the stream              *)
(*   2..15           copy the byte at distance token-1 in the history      *)
(*   16..255         the literal byte 255-token                            *)
(* Anything else is a corrupt stream; input that ends before the final     *)
(* block is an unexpected end of stream.                                   *)
(***************************************************************************)
flateTail == << 0, 0, 255, 255, 1, 0, 0, 255, 255 >>

RECURSIVE FlateRead(_, _, _)
\* flate.Reader over the stream `in` with dictionary `dict`: [payload, err]
FlateRead(in, dict, out) ==
    LET n == Len(in)
        hist == dict \o out
        bad == [payload |-> << >>, err |-> ErrFlate]
    IN  IF n = 0 THEN bad
        ELSE IF in[1] = 0
          THEN IF n >= 4 /\ SubSeq(in, 1, 4) = << 0, 0, 255, 255 >>
               THEN FlateRead(SubSeq(in, 5, n), dict, out)
               ELSE bad
        ELSE IF in[1] = 1
          THEN IF n >= 5 /\ SubSeq(in, 1, 5) = << 1, 0, 0, 255, 255 >>
               THEN [payload |-> out, err |-> NoErr]
               ELSE bad
        ELSE IF in[1] <= 15
          THEN IF in[1] - 1 <= Len(hist)
               THEN FlateRead(SubSeq(in, 2, n), dict,
                              Append(out, hist[Len(hist) - (in[1] - 1) + 1]))
               ELSE bad
        ELSE FlateRead(SubSeq(in, 2, n), dict, Append(out, 255 - in[1]))

\* flatter.InFlate: the reader is renewed over payload || flateTail; without
\* context takeover the dictionary is nil
InFlate(payload) == FlateRead(payload \o flateTail, << >>, << >>)

\* flate.Writer.Write then Flush: a repeated byte becomes a copy at distance
\* 1, any other byte a literal; Flush ends the output by the empty stored block
FlateWrite(payload) ==
    [ i \in 1..Len(payload) |->
        IF i > 1 /\ payload[i] = payload[i - 1] THEN 2 ELSE 255 - payload[i] ]
    \o << 0, 0, 255, 255 >>

\* flatter.DeFlate: the output of the writer without its 4-byte tail
DeFlate(payload) ==
    LET writtenBytes == FlateWrite(payload)
    IN  SubSeq(writtenBytes, 1, Len(writtenBytes) - 4)

(***************************************************************************)
(* Frames.  A frame on the wire is its parsed header (Headers) with the    *)
(* payload bytes that follow it; rd is how reading those bytes ends.       *)
(***************************************************************************)
Fill(n) == [ i \in 1..n |-> 97 ]

\* the key of the peer's masked frames, and the keys makeMaskingKey may draw
PeerKey == << 18, 52, 86, 120 >>

MaskKeys == { << 18, 52, 86, 120 >> }

\* payloads of the peer's final Text and Binary frames: plain text, a code
\* point cut short, a lone continuation byte that is also the code of "a",
\* and a code the inflater rejects
DataPayloads == { << >>, << 97 >>, << 226, 130 >>, << 158 >>, << 2 >> }

\* payloads of the first fragment of a message, and of its continuations
FirstPayloads(op) ==
    IF op = TextMessage THEN { << 226, 130 >>, << 158 >>, << 2 >> } ELSE { << 158 >> }

ContPayloads == { << 172 >>, << 97 >> }

\* payloads of the peer's Close frames
ClosePayloads ==
    { << >>, << 3 >> }
    \cup { PutUint16(c) : c \in { CloseNormal, CloseNoStatus, CloseAbnormal,
                                  CloseInternalServerErr, CloseFailedTLS, 2999,
                                  minNonCloseStatusCode, maxNonCloseStatusCode, 5000 } }
    \cup { PutUint16(CloseGoingAway) \o << 97 >>, PutUint16(CloseNormal) \o << 172 >>,
           PutUint16(CloseNormal) \o Fill(maxControlFramePayloadSize - 2),
           PutUint16(CloseNormal) \o Fill(maxControlFramePayloadSize - 1) }

\* payloads of the peer's Ping frames, and of its Pong frames
PingPayloads ==
    { << >>, << 159 >>, Fill(maxControlFramePayloadSize),
      Fill(maxControlFramePayloadSize + 1) }

PongPayloads == { << 159 >>, Fill(maxControlFramePayloadSize + 1) }

\* the payloads an opcode comes with when no fragmented message is open
PayloadsOf(op, fin) ==
    IF op = CloseFrame THEN ClosePayloads
    ELSE IF op = PingFrame THEN PingPayloads
    ELSE IF op = PongFrame THEN PongPayloads
    ELSE IF op = RM3 THEN { << 97 >> }
    ELSE IF op = ContinuationFrame THEN ContPayloads
    ELSE IF fin THEN DataPayloads
    ELSE FirstPayloads(op)

Opcodes == { ContinuationFrame, TextMessage, BinaryMessage, RM3,
             CloseFrame, PingFrame, PongFrame }

\* the frame with header bits and logical payload data as the peer sends it
MkFrame(fin, r1, r2, r3, op, m, data, rd) ==
    [ kind |-> "frame", FIN |-> fin, RSV1 |-> r1, RSV2 |-> r2, RSV3 |-> r3,
      Opcode |-> op, Mask |-> m, PayloadLength |-> Len(data),
      MaskingKey |-> IF m THEN PeerKey ELSE << >>,
      payload |-> IF m THEN toggleMask(data, PeerKey) ELSE data,
      rd |-> rd ]

\* frames with RSV2 or RSV3 set
ReservedFrames(op, data) ==
    { MkFrame(fin, FALSE, r2, ~r2, op, m, data, "ok") :
        fin \in BOOLEAN, r2 \in BOOLEAN, m \in BOOLEAN }

\* whole frames the peer may send when no fragmented message is open
Frames ==
    UNION { { MkFrame(fin, r1, FALSE, FALSE, op, m, data, "ok") :
                r1 \in BOOLEAN, m \in BOOLEAN, data \in PayloadsOf(op, fin) }
            : op \in Opcodes, fin \in BOOLEAN }
    \cup UNION { ReservedFrames(op, IF op = CloseFrame THEN PutUint16(CloseNormal)
                                    ELSE << 97 >>) : op \in Opcodes }

\* whole frames the peer may send inside a fragmented message
FragFrames ==
    { MkFrame(fin, r1, FALSE, FALSE, ContinuationFrame, m, data, "ok") :
        fin \in BOOLEAN, r1 \in BOOLEAN, m \in BOOLEAN, data \in ContPayloads }
    \cup { MkFrame(fin, r1, FALSE, FALSE, CloseFrame, m, data, "ok") :
             fin \in BOOLEAN, r1 \in BOOLEAN, m \in BOOLEAN,
             data \in { << >>, PutUint16(CloseNormal) } }
    \cup { MkFrame(fin, r1, FALSE, FALSE, PingFrame, m, << 159 >>, "ok") :
             fin \in BOOLEAN, r1 \in BOOLEAN, m \in BOOLEAN }
    \cup { MkFrame(TRUE, FALSE, FALSE, FALSE, PingFrame, m,
                   Fill(maxControlFramePayloadSize + 1), "ok") : m \in BOOLEAN }
    \cup { MkFrame(fin, FALSE, FALSE, FALSE, PongFrame, m, << >>, "ok") :
             fin \in BOOLEAN, m \in BOOLEAN }
    \cup { MkFrame(TRUE, FALSE, FALSE, FALSE, op, m, << 97 >>, "ok") :
             op \in { TextMessage, BinaryMessage, RM3 }, m \in BOOLEAN }
    \cup ReservedFrames(ContinuationFrame, << 172 >>)
    \cup ReservedFrames(PingFrame, << 159 >>)

\* whole frames the read buffer may still hold when netConn has been closed
BufferedFrames ==
    { MkFrame(TRUE, FALSE, FALSE, FALSE, op, m, << 97 >>, "ok") :
        op \in { TextMessage, PingFrame }, m \in BOOLEAN }

\* frames whose payload the stream fails to deliver: it ends (eof) or the
\* read fails (err) before PayloadLength bytes have come
CutFrames ==
    { MkFrame(TRUE, FALSE, FALSE, FALSE, op, m,
              IF op = CloseFrame THEN PutUint16(CloseNormal) ELSE << 97 >>, rd) :
        m \in BOOLEAN, op \in Opcodes \ { RM3 }, rd \in { "eof", "err" } }

FragCutFrames ==
    { h \in CutFrames : h.Opcode \in { ContinuationFrame, PingFrame } }

\* a header that could not be read: the stream ended, or the read failed
HeaderEOF == [ kind |-> "eof" ]
HeaderErr == [ kind |-> "err" ]
NoFrame == [ kind |-> "none" ]

NoHeaders == [ kind |-> "nil" ]

\* outcomes of netConn.Write on an open connection
WriteOutcomes == { "ok", "eof", "err" }

(***************************************************************************)
(* makeFrameHeadersBuf: the bytes of a header on the wire.  The bits of    *)
(* byte 0 and byte 1 are disjoint, so each |= is an addition.              *)
(***************************************************************************)
finMask == 128
rsv1Mask == 64
rsv2Mask == 32
rsv3Mask == 16
maskMask == 128

\* binary.BigEndian.PutUint64, for the lengths the checker's integers hold
PutUint64(v) == << 0, 0, 0, 0 >> \o PutUint16(v \div 65536) \o PutUint16(v)

\* a faulty variant of makeFrameHeadersBuf: the masking key is left out
makeFrameHeadersBufNoKey(h) ==
    LET byte0 == (IF h.FIN THEN finMask ELSE 0) + (IF h.RSV1 THEN rsv1Mask ELSE 0)
                 + (IF h.RSV2 THEN rsv2Mask ELSE 0) + (IF h.RSV3 THEN rsv3Mask ELSE 0)
                 + h.Opcode
        byte1 == IF h.Mask THEN maskMask ELSE 0
        pl == h.PayloadLength
    IN  << byte0 >>
        \o (IF pl <= 125 THEN << byte1 + pl >>
            ELSE IF pl <= 65535 THEN << byte1 + 126 >> \o PutUint16(pl)
            ELSE << byte1 + 127 >> \o PutUint64(pl))

makeFrameHeadersBuf(h) ==
    LET byte0 == (IF h.FIN THEN finMask ELSE 0) + (IF h.RSV1 THEN rsv1Mask ELSE 0)
                 + (IF h.RSV2 THEN rsv2Mask ELSE 0) + (IF h.RSV3 THEN rsv3Mask ELSE 0)
                 + h.Opcode
        byte1 == IF h.Mask THEN maskMask ELSE 0
        pl == h.PayloadLength
    IN  << byte0 >>
        \o (IF pl <= 125 THEN << byte1 + pl >>
            ELSE IF pl <= 65535 THEN << byte1 + 126 >> \o PutUint16(pl)
            ELSE << byte1 + 127 >> \o PutUint64(pl))
        \o (IF h.Mask THEN h.MaskingKey ELSE << >>)

(***************************************************************************)
(* Results.  A handler returns (payload, err); its effects on the          *)
(* connection travel in e = [closed, netClosed, sent].  A run-time panic   *)
(* of the Go code is the error value ErrPanic.                             *)
(***************************************************************************)
ErrPanic == "panic"

Res(payload, err, e) == [ payload |-> payload, err |-> err, e |-> e ]

\* Conn.read(n): n = 0 reads nothing
read(h, e) ==
    IF h.PayloadLength = 0 THEN Res(<< >>, NoErr, e)
    ELSE IF h.rd = "ok" THEN Res(h.payload, NoErr, e)
    ELSE Res(<< >>, IF h.rd = "eof" THEN ErrEOF ELSE ErrIO, e)

\* the error netConn.Write returns
WriteErr(res) == IF res = "ok" THEN NoErr ELSE IF res = "eof" THEN ErrEOF ELSE ErrIO

\* Conn.sendControl: one frame, one netConn.Write; w is what the write
\* returns when the connection is open, key what makeMaskingKey draws
sendControl(mt, status, reason, e, w, key) ==
    LET plain == (IF mt = CloseFrame THEN PutUint16(status) ELSE << >>) \o reason
        payload == IF ~isServer THEN toggleMask(plain, key) ELSE plain
        headers == [ kind |-> "frame", FIN |-> TRUE, RSV1 |-> FALSE, RSV2 |-> FALSE,
                     RSV3 |-> FALSE, Opcode |-> mt, Mask |-> ~isServer,
                     PayloadLength |-> Len(payload),
                     MaskingKey |-> IF ~isServer THEN key ELSE << >>,
                     payload |-> payload ]
        buf == makeFrameHeadersBuf(headers) \o payload
        res == IF e.netClosed THEN "err" ELSE w
    IN  [ res |-> res,
          e |-> [ e EXCEPT !.sent = Append(@, [ frame |-> headers, res |-> res,
                                                 open |-> ~e.netClosed,
                                                 plain |-> plain, buf |-> buf ]) ] ]

\* the deferred teardown of handleCloseFrame, and the end of closeWithErr
Teardown(e) == [ e EXCEPT !.closed = TRUE, !.netClosed = TRUE ]

\* `v, err := f(); if err != nil { return nil, err }`, then the rest K
Then(r, K(_)) == IF r.err # NoErr THEN r ELSE K(r)

\* `v := f()`, then the rest K
With(v, K(_)) == K(v)

\* Conn.closeWithErr
closeWithErr(code, e, w, key) ==
    With(sendControl(CloseFrame, code, << >>, e, w, key), LAMBDA s :
      IF isEOF(WriteErr(s.res))
      THEN Res(<< >>, ErrUnexpectedClose, s.e)
      ELSE Res(<< >>,
               IF code = CloseMistachedPayloadData THEN ErrUtf8 ELSE ErrBadMessage,
               Teardown(s.e)))

\* a faulty variant of Unmask: the payload is left as it came
UnmaskNot(h, payload, e) == Res(payload, NoErr, e)

\* the unmasking every handler does "if we're a server": toggleMask panics
\* on the nil key of a frame that came without one
Unmask(h, payload, e) ==
    IF ~isServer THEN Res(payload, NoErr, e)
    ELSE IF Len(h.MaskingKey) < 4 THEN Res(<< >>, ErrPanic, e)
    ELSE Res(toggleMask(payload, h.MaskingKey), NoErr, e)

\* "handle compression" of handleTextMessage and handleBinaryMessage
InflateSingle(h, payload, e) ==
    IF h.FIN /\ cc.Enabled /\ h.RSV1
    THEN With(InFlate(payload), LAMBDA z : Res(z.payload, z.err, e))
    ELSE Res(payload, NoErr, e)

handleBinaryMessage(h, e) ==
    Then(read(h, e), LAMBDA r :
    Then(Unmask(h, r.payload, e), LAMBDA u :
      InflateSingle(h, u.payload, e)))

\* a faulty variant of handleTextMessage: every fragment is validated
handleTextMessageEach(h, e) ==
    Then(handleBinaryMessage(h, e), LAMBDA z :
      IF ~Utf8Valid(z.payload) THEN Res(z.payload, ErrUtf8, e) ELSE z)

\* a faulty variant of handleTextMessage: the payload is not validated
handleTextMessageUnchecked(h, e) == handleBinaryMessage(h, e)

handleTextMessage(h, e) ==
    Then(handleBinaryMessage(h, e), LAMBDA z :
      IF h.FIN /\ ~Utf8Valid(z.payload) THEN Res(z.payload, ErrUtf8, e) ELSE z)

\* the body of handleCloseFrame; its deferred teardown is applied by
\* handleCloseFrame below when the body returns or panics
CloseFrameBody(h, e, w, key) ==
    IF h.PayloadLength = 0
    THEN Res(<< >>, ErrNormalClose, sendControl(CloseFrame, CloseNormal, << >>, e, w, key).e)
    ELSE IF h.PayloadLength < 2 \/ h.PayloadLength > maxControlFramePayloadSize
    THEN Res(<< >>, ErrBadMessage, e)
    ELSE IF ~h.FIN THEN Res(<< >>, ErrBadMessage, e)
    ELSE IF h.RSV1 THEN Res(<< >>, ErrBadMessage, e)
    ELSE
      Then(read(h, e), LAMBDA r :
      Then(Unmask(h, r.payload, e), LAMBDA u :
        LET statusCode == Uint16(SubSeq(u.payload, 1, 2))
            reason == SubSeq(u.payload, 3, Len(u.payload))
        IN  IF /\ ~validCloseFrameCodes(statusCode)
               /\ (statusCode < minNonCloseStatusCode
                     \/ statusCode > maxNonCloseStatusCode)
            THEN Res(u.payload, ErrBadMessage, e)
            ELSE IF Len(reason) > 0 /\ ~Utf8Valid(reason)
            THEN Res(reason, ErrBadMessage, e)
            ELSE Res(reason, ErrNormalClose,
                     sendControl(CloseFrame, statusCode, reason, e, w, key).e)))

handleCloseFrame(h, e, w, key) ==
    With(CloseFrameBody(h, e, w, key), LAMBDA r : [ r EXCEPT !.e = Teardown(r.e) ])

handlePingFrame(h, e, w, key) ==
    IF h.PayloadLength > maxControlFramePayloadSize THEN Res(<< >>, ErrBadMessage, e)
    ELSE IF ~h.FIN THEN Res(<< >>, ErrBadMessage, e)
    ELSE IF h.RSV1 THEN Res(<< >>, ErrBadMessage, e)
    ELSE
      Then(read(h, e), LAMBDA r :
      Then(Unmask(h, r.payload, e), LAMBDA u :
      With(sendControl(PongFrame, 0, u.payload, e, w, key), LAMBDA s :
        Res(u.payload, WriteErr(s.res), s.e))))

handlePongFrame(h, e) ==
    IF h.PayloadLength > maxControlFramePayloadSize THEN Res(<< >>, ErrBadMessage, e)
    ELSE IF ~h.FIN THEN Res(<< >>, ErrBadMessage, e)
    ELSE IF h.RSV1 THEN Res(<< >>, ErrBadMessage, e)
    ELSE read(h, e)

\* a faulty variant of handleSingleFrame: an unhandled opcode is read as data
handleSingleFrameLax(h, e, w, key) ==
    IF h.Opcode = TextMessage THEN handleTextMessage(h, e)
    ELSE IF h.Opcode = CloseFrame THEN handleCloseFrame(h, e, w, key)
    ELSE IF h.Opcode = PingFrame THEN handlePingFrame(h, e, w, key)
    ELSE IF h.Opcode = PongFrame THEN handlePongFrame(h, e)
    ELSE handleBinaryMessage(h, e)

handleSingleFrame(h, e, w, key) ==
    IF h.Opcode = TextMessage THEN handleTextMessage(h, e)
    ELSE IF h.Opcode \in { BinaryMessage, ContinuationFrame } THEN handleBinaryMessage(h, e)
    ELSE IF h.Opcode = CloseFrame THEN handleCloseFrame(h, e, w, key)
    ELSE IF h.Opcode = PingFrame THEN handlePingFrame(h, e, w, key)
    ELSE IF h.Opcode = PongFrame THEN handlePongFrame(h, e)
    ELSE Res(<< >>, ErrBadMessage, e)

\* a faulty variant of handleSingleFrameErr: the end of the stream is
\* reported as the error of the read
handleSingleFrameErrRaw(err, e, w, key) ==
    IF err = ErrUtf8 THEN closeWithErr(CloseMistachedPayloadData, e, w, key)
    ELSE IF err = ErrBadMessage THEN closeWithErr(CloseProtocolError, e, w, key)
    ELSE Res(<< >>, err, e)

handleSingleFrameErr(err, e, w, key) ==
    IF isEOF(err) THEN Res(<< >>, ErrUnexpectedClose, e)
    ELSE IF err = ErrUtf8 THEN closeWithErr(CloseMistachedPayloadData, e, w, key)
    ELSE IF err = ErrBadMessage THEN closeWithErr(CloseProtocolError, e, w, key)
    ELSE Res(<< >>, err, e)

checkRSV1(h) ==
    IF ~cc.Enabled THEN TRUE
    ELSE IF h.Opcode # TextMessage /\ h.Opcode # BinaryMessage THEN TRUE
    ELSE FALSE

(***************************************************************************)
(* Conn.NextMessage.  The caller is suspended at each read of a frame: one *)
(* step of the model is one pass of the outer loop (NextFirst) or of the   *)
(* fragment loop (NextFrag), from the parse of a header to the next parse  *)
(* or to the return.                                                       *)
(***************************************************************************)
Pass(kind, op, payload, err, e) ==
    [ kind |-> kind, op |-> op, payload |-> payload, err |-> err, e |-> e ]

\* return CloseFrame, nil, err; a panic unwinds the caller instead
ErrReturn(r) ==
    IF r.err = ErrPanic THEN Pass("panic", CloseFrame, << >>, ErrPanic, r.e)
    ELSE Pass("return", CloseFrame, << >>, r.err, r.e)

\* what parseFrameHeaders gives NextMessage: ok, the stream ended (isEOF), or
\* another error, on which the nil *Headers is dereferenced
ParseOutcome(h) ==
    IF h.kind = "frame" THEN NoErr ELSE IF h.kind = "eof" THEN ErrEOF ELSE ErrIO

\* a faulty variant of AppendFragment: the fragment is put in front
AppendFragmentFront(buf, nextPayload) == nextPayload \o buf

\* append data
AppendFragment(buf, nextPayload) == buf \o nextPayload

\* a faulty variant of MaskMismatch: only the server checks the direction
MaskMismatchServerOnly(h) == isServer /\ ~h.Mask

\* the direction check: a server reads masked frames, a client unmasked ones
MaskMismatch(h) == h.Mask # isServer

\* the outer loop, up to the fragment loop
NextFirst(h, e, w, key) ==
    IF isEOF(ParseOutcome(h)) THEN ErrReturn(Res(<< >>, ErrUnexpectedClose, e))
    ELSE IF ParseOutcome(h) # NoErr THEN ErrReturn(Res(<< >>, ErrPanic, e))
    ELSE IF (h.RSV1 /\ checkRSV1(h)) \/ h.RSV2 \/ h.RSV3
      THEN ErrReturn(closeWithErr(CloseProtocolError, e, w, key))
    ELSE IF MaskMismatch(h)
      THEN ErrReturn(closeWithErr(CloseProtocolError, e, w, key))
    ELSE
      With(handleSingleFrame(h, e, w, key), LAMBDA r :
        IF r.err = ErrPanic THEN ErrReturn(r)
        ELSE IF r.err # NoErr THEN ErrReturn(handleSingleFrameErr(r.err, r.e, w, key))
        ELSE IF isPingPongFrame(h.Opcode)
          THEN Pass("continue", h.Opcode, << >>, NoErr, r.e)
        ELSE IF h.Opcode = ContinuationFrame
          THEN ErrReturn(closeWithErr(CloseProtocolError, r.e, w, key))
        ELSE IF h.FIN THEN Pass("return", h.Opcode, r.payload, NoErr, r.e)
        ELSE Pass("frag", h.Opcode, r.payload, NoErr, r.e))

\* after the fragment loop: inflate, validate, return
Finish(first, buf, e, w, key) ==
    With(IF cc.Enabled /\ first.RSV1 THEN InFlate(buf)
         ELSE [ payload |-> buf, err |-> NoErr ], LAMBDA z :
      IF z.err # NoErr
        THEN ErrReturn(closeWithErr(CloseInternalServerErr, e, w, key))
      ELSE IF first.Opcode = TextMessage /\ ~Utf8Valid(z.payload)
        THEN ErrReturn(closeWithErr(CloseMistachedPayloadData, e, w, key))
      ELSE Pass("return", first.Opcode, z.payload, NoErr, e))

\* one pass of the fragment loop, and what follows the loop when it breaks
NextFrag(first, buf, h, e, w, key) ==
    IF isEOF(ParseOutcome(h)) THEN ErrReturn(Res(<< >>, ErrUnexpectedClose, e))
    ELSE IF ParseOutcome(h) # NoErr THEN ErrReturn(Res(<< >>, ErrPanic, e))
    ELSE IF h.Opcode # ContinuationFrame /\ ~isControlFrame(h.Opcode)
      THEN ErrReturn(closeWithErr(CloseProtocolError, e, w, key))
    ELSE IF ~first.RSV1 /\ h.RSV1
      THEN ErrReturn(closeWithErr(CloseProtocolError, e, w, key))
    ELSE
      With(handleSingleFrame(h, e, w, key), LAMBDA r :
        IF r.err = ErrPanic THEN ErrReturn(r)
        ELSE IF r.err # NoErr THEN ErrReturn(handleSingleFrameErr(r.err, r.e, w, key))
        ELSE IF isPingPongFrame(h.Opcode)
          THEN Pass("continue", h.Opcode, buf, NoErr, r.e)
        ELSE IF h.FIN THEN Finish(first, AppendFragment(buf, r.payload), r.e, w, key)
        ELSE Pass("frag", h.Opcode, AppendFragment(buf, r.payload), NoErr, r.e))

(***************************************************************************)
(* The state machine.                                                      *)
(***************************************************************************)
NoRet == [ call |-> "none" ]

NoRSV1 == [ first |-> FALSE, cont |-> FALSE ]

\* newConn: the default of an unset compression threshold
newConn(cfg) ==
    IF cfg.Enabled /\ cfg.CompressionThreshold <= 0
    THEN [ cfg EXCEPT !.CompressionThreshold = IF cfg.IsContextTakeover THEN 128 ELSE 512 ]
    ELSE cfg

\* the compression configurations a connection is created with
Configs ==
    { [ Enabled |-> FALSE, IsContextTakeover |-> FALSE, CompressionThreshold |-> 0 ],
      [ Enabled |-> TRUE, IsContextTakeover |-> FALSE, CompressionThreshold |-> 1 ] }

ConnInit ==
    /\ isServer \in BOOLEAN
    /\ cc \in { newConn(cfg) : cfg \in Configs }
    /\ closed = FALSE
    /\ netClosed = FALSE
    /\ pc = "ready"
    /\ initialHeaders = NoHeaders
    /\ initialPayload = << >>
    /\ nfrag = 0
    /\ lastFrame = NoFrame
    /\ sent = << >>
    /\ ret = NoRet
    /\ inEOF = FALSE
    /\ buffered = 0
    /\ closeCalls = 0
    /\ flatterPuts = 0
    /\ wireOp = ContinuationFrame
    /\ wirePayload = << >>
    /\ wireRSV1 = NoRSV1
    /\ readIn = "none"

Init ==
    /\ ConnInit
    /\ applied = NoCall
    /\ hs = NoHandshake
    /\ wr = NoWrites
    /\ fl = NoFlate

\* the application has taken the result of its last call and goes on to the
\* next one
Proceed ==
    /\ pc = "idle"
    /\ pc' = "ready"
    /\ lastFrame' = NoFrame
    /\ sent' = << >>
    /\ ret' = NoRet
    /\ wireOp' = ContinuationFrame
    /\ wirePayload' = << >>
    /\ wireRSV1' = NoRSV1
    /\ readIn' = "none"
    /\ UNCHANGED << isServer, cc, closed, netClosed, initialHeaders, initialPayload,
                    nfrag, inEOF, buffered, closeCalls, flatterPuts >>
    /\ UNCHANGED aside

\* what a read of Conn.br can meet: once netConn is closed only what the
\* buffer still holds, then the error of a closed connection
InEvents(whole, cut) ==
    IF netClosed
    THEN { HeaderErr } \cup (IF buffered < MaxBuffered THEN BufferedFrames ELSE { })
    ELSE IF inEOF THEN { HeaderEOF }
    ELSE whole \cup cut \cup { HeaderEOF, HeaderErr }

\* the outcomes of the write of a pass: drawn only when the pass writes
WritesOf(o) == IF o.e.sent = << >> THEN { "ok" } ELSE WriteOutcomes

\* the payload of a frame as this endpoint decodes it
FramePayload(h) ==
    IF isServer /\ h.Mask THEN toggleMask(h.payload, h.MaskingKey) ELSE h.payload

\* the effect of one pass on the connection and on the caller
Apply(h, o) ==
    /\ lastFrame' = h
    /\ sent' = o.e.sent
    /\ closed' = o.e.closed
    /\ netClosed' = o.e.netClosed
    /\ inEOF' = (inEOF \/ h.kind = "eof" \/ (h.kind = "frame" /\ h.rd = "eof"))
    /\ buffered' = IF netClosed /\ h.kind = "frame" THEN buffered + 1 ELSE buffered
    /\ pc' = CASE o.kind = "return" -> "idle"
               [] o.kind = "panic" -> "panic"
               [] o.kind = "continue" -> IF pc = "ready" THEN "first" ELSE pc
               [] o.kind = "frag" -> "frag"
    /\ ret' = IF o.kind = "return"
              THEN [ call |-> "NextMessage", op |-> o.op, payload |-> o.payload, err |-> o.err ]
              ELSE NoRet
    /\ UNCHANGED << isServer, cc, closeCalls, flatterPuts >>
    /\ UNCHANGED aside

\* Conn.NextMessage (the code does not look at c.closed): a pass of its
\* outer loop, entered by the call or after a Ping or a Pong
ReadFirst ==
    /\ pc \in { "ready", "first" }
    /\ \E h \in InEvents(Frames, CutFrames), key \in MaskKeys :
         LET e0 == [ closed |-> closed, netClosed |-> netClosed, sent |-> << >> ]
         IN  \E w \in WritesOf(NextFirst(h, e0, "ok", key)) :
               \E o \in { NextFirst(h, e0, w, key) } :
                   /\ Apply(h, o)
                   /\ initialHeaders' = IF o.kind = "frag" THEN h ELSE NoHeaders
                   /\ initialPayload' = IF o.kind = "frag" THEN o.payload ELSE << >>
                   /\ nfrag' = IF o.kind = "frag" THEN 1 ELSE 0
                   /\ readIn' = "Idle"
                   /\ wireRSV1' = [ first |-> h.kind = "frame" /\ h.RSV1, cont |-> FALSE ]
                   /\ wireOp' = IF h.kind = "frame" THEN h.Opcode ELSE wireOp
                   /\ wirePayload' = IF h.kind = "frame" /\ ~isControlFrame(h.Opcode)
                                     THEN FramePayload(h) ELSE << >>

\* Conn.NextMessage: a pass of its fragment loop
ReadNext ==
    /\ pc = "frag"
    /\ \E h \in InEvents(FragFrames, FragCutFrames), key \in MaskKeys :
         /\ (h.kind = "frame" /\ h.Opcode = ContinuationFrame /\ ~h.FIN) => nfrag < MaxFrags
         /\ LET e0 == [ closed |-> closed, netClosed |-> netClosed, sent |-> << >> ]
            IN  \E w \in WritesOf(NextFrag(initialHeaders, initialPayload, h, e0, "ok", key)) :
                  \E o \in { NextFrag(initialHeaders, initialPayload, h, e0, w, key) } :
                  LET keep == o.kind \in { "continue", "frag" }
                  IN  /\ Apply(h, o)
                      /\ initialHeaders' = IF keep THEN initialHeaders ELSE NoHeaders
                      /\ initialPayload' = IF keep THEN o.payload ELSE << >>
                      /\ nfrag' = IF o.kind = "frag" THEN nfrag + 1
                                  ELSE IF keep THEN nfrag ELSE 0
                      /\ readIn' = "Assembling"
                      /\ wireRSV1' =
                           [ wireRSV1 EXCEPT !.cont =
                               @ \/ (h.kind = "frame" /\ h.Opcode = ContinuationFrame
                                       /\ h.RSV1) ]
                      /\ wireOp' = wireOp
                      /\ wirePayload' =
                           IF h.kind = "frame" /\ h.Opcode = ContinuationFrame
                           THEN wirePayload \o FramePayload(h) ELSE wirePayload

\* what the application sends: payloads around the configured threshold, and
\* the message types it may name
SendPayloads == { << 97 >>, << 97, 97 >> }

SendTypes == { TextMessage, BinaryMessage, PingFrame }

\* len(makeFrameHeadersBuf(h))
HeaderLen(h) ==
    2 + (IF h.PayloadLength <= 125 THEN 0 ELSE IF h.PayloadLength <= 65535 THEN 2 ELSE 8)
      + (IF h.Mask THEN 4 ELSE 0)

\* a faulty variant of InvalidMessageType: only Text is a message type
InvalidMessageTypeButText(mt) == mt # TextMessage

\* the first check of SendMessage
InvalidMessageType(mt) == mt # TextMessage /\ mt # BinaryMessage

\* the slice the caller passed, when SendMessage returns: a compressed
\* message rebinds payload to the output of DeFlate, otherwise toggleMask
\* works on the slice of the caller
CallerSlice(payload, shouldCompress, key) ==
    IF ~isServer /\ ~shouldCompress THEN toggleMask(payload, key) ELSE payload

\* Conn.SendMessage(payload, mt); ret.payload is the slice as it was passed,
\* ret.caller the same slice when the call returns
SendMessage ==
    /\ pc = "ready"
    /\ pc' = "idle"
    /\ \E mt \in SendTypes :
         IF InvalidMessageType(mt)
         THEN /\ ret' = [ call |-> "SendMessage", mt |-> mt, payload |-> << >>,
                          caller |-> << >>, n |-> 0, err |-> ErrInvalidMessageType ]
              /\ sent' = << >>
         ELSE
           \E payload \in SendPayloads, w \in WriteOutcomes, key \in MaskKeys :
             LET shouldCompress == cc.Enabled /\ Len(payload) > cc.CompressionThreshold
                 body == IF shouldCompress THEN DeFlate(payload) ELSE payload
                 headers == [ kind |-> "frame", FIN |-> TRUE, RSV1 |-> shouldCompress,
                              RSV2 |-> FALSE, RSV3 |-> FALSE, Opcode |-> mt,
                              Mask |-> ~isServer, PayloadLength |-> Len(body),
                              MaskingKey |-> key,
                              payload |-> IF ~isServer THEN toggleMask(body, key) ELSE body ]
                 buf == makeFrameHeadersBuf(headers) \o headers.payload
                 res == IF netClosed THEN "err" ELSE w
             IN  /\ sent' = << [ frame |-> headers, res |-> res, open |-> ~netClosed,
                                 plain |-> body, buf |-> buf ] >>
                 /\ ret' = [ call |-> "SendMessage", mt |-> mt, payload |-> payload,
                             caller |-> CallerSlice(payload, shouldCompress, key),
                             n |-> IF res = "ok" THEN HeaderLen(headers) + Len(body) ELSE 0,
                             err |-> WriteErr(res) ]
    /\ lastFrame' = NoFrame
    /\ UNCHANGED << isServer, cc, closed, netClosed, initialHeaders, initialPayload,
                    nfrag, inEOF, buffered, closeCalls, flatterPuts, wireOp, wirePayload,
                    wireRSV1, readIn >>
    /\ UNCHANGED aside

\* a faulty variant of CloseStatus: every role closes with 1000
CloseStatusNormal == CloseNormal

\* the status Close() sends: going away for a server, normal for a client
CloseStatus == IF isServer THEN CloseGoingAway ELSE CloseNormal

\* Conn.Close()
Close ==
    /\ pc = "ready"
    /\ pc' = "idle"
    /\ closeCalls < MaxCloseCalls
    /\ \E w \in WriteOutcomes, key \in MaskKeys :
         LET e == [ closed |-> closed, netClosed |-> netClosed, sent |-> << >> ]
             s == sendControl(CloseFrame, CloseStatus, << >>, e, w, key).e
         IN  /\ sent' = IF ~closed THEN s.sent ELSE << >>
             /\ netClosed' = (netClosed \/ ~closed)
    /\ flatterPuts' = IF cc.Enabled THEN flatterPuts + 1 ELSE flatterPuts
    /\ closeCalls' = closeCalls + 1
    /\ lastFrame' = NoFrame
    /\ ret' = [ call |-> "Close" ]
    /\ UNCHANGED << isServer, cc, closed, initialHeaders, initialPayload, nfrag,
                    inEOF, buffered, wireOp, wirePayload, wireRSV1, readIn >>
    /\ UNCHANGED aside

Next ==
    \/ Proceed
    \/ ReadFirst
    \/ ReadNext
    \/ SendMessage
    \/ Close

Spec == Init /\ [][Next]_vars

(***************************************************************************)
(* PureSpec: the functions that stand on their own, applied to arguments   *)
(* drawn from bounded sets.  A behaviour applies one function once and     *)
(* records its arguments and results in the variable applied.              *)
(***************************************************************************)
\* payloads handed to toggleMask have 0..MaxMaskLen bytes: whole 4-byte
\* words, trailing bytes, and both
MaxMaskLen == 9

opcodeMask == 15
payloadLengthMask == 127

\* readToBool: byte & mask != 0, for a mask of one bit
readToBool(byte, mask) == (byte \div mask) % 2 = 1

\* binary.BigEndian.Uint64
Uint64(s) ==
    ((Uint16(SubSeq(s, 1, 2)) * 65536 + Uint16(SubSeq(s, 3, 4))) * 65536
        + Uint16(SubSeq(s, 5, 6))) * 65536 + Uint16(SubSeq(s, 7, 8))

\* Conn.peekDiscard(n) on a reader that holds the bytes br and has given out
\* the first at of them: bufio's Peek fails when fewer than n bytes remain,
\* and nothing is discarded then
peekDiscard(br, at, n) ==
    IF at + n <= Len(br)
    THEN [ buf |-> SubSeq(br, at + 1, at + n), at |-> at + n, err |-> NoErr ]
    ELSE [ buf |-> SubSeq(br, at + 1, Len(br)), at |-> at, err |-> ErrEOF ]

\* what parseFrameHeaders returns: the header, or nil and the error; at is
\* how many bytes of the reader it has consumed
Parsed(h, at, err) == [ h |-> h, at |-> at, err |-> err ]

\* Conn.parseFrameHeaders on a reader that holds the bytes br
parseFrameHeaders(br) ==
    With(peekDiscard(br, 0, 2), LAMBDA b :
      IF b.err # NoErr THEN Parsed(NoHeaders, b.at, b.err)
      ELSE
        With(b.buf[2] % (payloadLengthMask + 1), LAMBDA l :
        With(peekDiscard(br, b.at, IF l = 126 THEN 2 ELSE IF l = 127 THEN 8 ELSE 0),
             LAMBDA pl :
          IF pl.err # NoErr THEN Parsed(NoHeaders, pl.at, pl.err)
          ELSE
            With(peekDiscard(br, pl.at, IF readToBool(b.buf[2], maskMask) THEN 4 ELSE 0),
                 LAMBDA k :
              IF k.err # NoErr THEN Parsed(NoHeaders, k.at, k.err)
              ELSE Parsed([ FIN |-> readToBool(b.buf[1], finMask),
                            RSV1 |-> readToBool(b.buf[1], rsv1Mask),
                            RSV2 |-> readToBool(b.buf[1], rsv2Mask),
                            RSV3 |-> readToBool(b.buf[1], rsv3Mask),
                            Opcode |-> b.buf[1] % (opcodeMask + 1),
                            Mask |-> readToBool(b.buf[2], maskMask),
                            PayloadLength |-> IF l = 126 THEN Uint16(pl.buf)
                                              ELSE IF l = 127 THEN Uint64(pl.buf)
                                              ELSE l,
                            MaskingKey |-> k.buf ],
                          k.at, NoErr)))))

\* the bytes of the payloads and of the keys handed to toggleMask
MaskBytes == { 60, 165 }

RECURSIVE BytesOfLen(_)
BytesOfLen(n) ==
    IF n = 0 THEN { << >> }
    ELSE { << b >> \o p : b \in MaskBytes, p \in BytesOfLen(n - 1) }

MaskPayloads == UNION { BytesOfLen(n) : n \in 0..MaxMaskLen }

MaskingKeys == { << 0, 0, 0, 0 >>, << 18, 52, 86, 120 >>, << 255, 0, 255, 128 >>,
                 << 255, 255, 255, 255 >> }

\* the headers handed to makeFrameHeadersBuf: every known opcode, every
\* combination of FIN and the reserved bits, no mask or a mask with its key,
\* and the lengths on both sides of each change of encoding, up to the
\* largest the checker's integers hold
HeaderLengths == { 0, 1, 125, 126, 127, 65535, 65536, 2147483647 }

KnownOpcodes == { ContinuationFrame, TextMessage, BinaryMessage, CloseFrame,
                  PingFrame, PongFrame }

ValidHeaders ==
    { [ FIN |-> f[1], RSV1 |-> f[2], RSV2 |-> f[3], RSV3 |-> f[4], Opcode |-> op,
        Mask |-> k # << >>, PayloadLength |-> pl, MaskingKey |-> k ] :
        f \in BOOLEAN \X BOOLEAN \X BOOLEAN \X BOOLEAN, op \in KnownOpcodes,
        pl \in HeaderLengths, k \in { << >>, PeerKey, << 255, 0, 255, 128 >> } }

\* what follows the header in the reader: nothing, or the start of a payload
AfterHeader == { << >>, << 129, 254 >> }

\* the connection stays as newConn returns it: a server without compression
Parked == ConnInit /\ isServer /\ ~cc.Enabled

PureInit ==
    /\ Parked
    /\ applied = NoCall
    /\ hs = NoHandshake
    /\ wr = NoWrites
    /\ fl = NoFlate

\* toggleMask(payload, maskingKey), and toggleMask again on its result
ApplyToggleMask ==
    /\ applied = NoCall
    /\ \E payload \in MaskPayloads, maskingKey \in MaskingKeys :
         \E once \in { toggleMask(payload, maskingKey) } :
            applied' = [ fn |-> "toggleMask", payload |-> payload,
                         maskingKey |-> maskingKey, once |-> once,
                         twice |-> toggleMask(once, maskingKey) ]
    /\ UNCHANGED << conn, hs, wr, fl >>

\* makeFrameHeadersBuf(h), and parseFrameHeaders on a reader that holds its
\* bytes and what follows them
ApplyFrameHeaders ==
    /\ applied = NoCall
    /\ \E h \in ValidHeaders, rest \in AfterHeader :
         \E buf \in { makeFrameHeadersBuf(h) } :
            applied' = [ fn |-> "parseFrameHeaders", h |-> h, buf |-> buf,
                         rest |-> rest, parsed |-> parseFrameHeaders(buf \o rest) ]
    /\ UNCHANGED << conn, hs, wr, fl >>

PureNext ==
    \/ ApplyToggleMask
    \/ ApplyFrameHeaders

PureSpec == PureInit /\ [][PureNext]_vars

(***************************************************************************)
(* HandshakeSpec: the opening handshake, Upgrader (conn.go) and Dialer.    *)
(*                                                                         *)
(* A string is the sequence of its atoms: a word (a token, a key, a URL),  *)
(* which no function of the handshake cuts, or one of the separators       *)
(* ",", ";", "=", " " and "\r\n".  The functions of package strings are    *)
(* modelled by what they do to such a sequence.  An http.Header is a       *)
(* function from the header names to the sequence of the values of the     *)
(* header, one for each line that carries it.                              *)
(***************************************************************************)
VERSION == << "13" >>

KEY_GUID == "258EAFA5-E914-47DA-95CA-C5AB0DC85B11"

\* unicode.IsSpace
IsSpace(a) == a \in { " ", "\r\n" }

RECURSIVE TrimLeft(_)
TrimLeft(s) == IF s # << >> /\ IsSpace(Head(s)) THEN TrimLeft(Tail(s)) ELSE s

RECURSIVE TrimRight(_)
TrimRight(s) ==
    IF s # << >> /\ IsSpace(s[Len(s)]) THEN TrimRight(SubSeq(s, 1, Len(s) - 1)) ELSE s

\* strings.TrimSpace
TrimSpace(s) == TrimRight(TrimLeft(s))

\* the index of the first atom of s that is in the set seps, Len(s) + 1 if
\* there is none
IndexAny(s, seps) ==
    IF \E i \in 1..Len(s) : s[i] \in seps
    THEN CHOOSE i \in 1..Len(s) : s[i] \in seps /\ \A j \in 1..(i - 1) : s[j] \notin seps
    ELSE Len(s) + 1

RECURSIVE Split(_, _)
\* strings.Split(s, sep): the pieces between the separators, at least one
Split(s, sep) ==
    IF IndexAny(s, { sep }) > Len(s) THEN << s >>
    ELSE << SubSeq(s, 1, IndexAny(s, { sep }) - 1) >>
         \o Split(SubSeq(s, IndexAny(s, { sep }) + 1, Len(s)), sep)

RECURSIVE Fields(_)
\* strings.Fields(s): the pieces between runs of white space, none empty
Fields(s) ==
    IF TrimLeft(s) = << >> THEN << >>
    ELSE << SubSeq(TrimLeft(s), 1, IndexAny(TrimLeft(s), { " ", "\r\n" }) - 1) >>
         \o Fields(SubSeq(TrimLeft(s), IndexAny(TrimLeft(s), { " ", "\r\n" }),
                          Len(TrimLeft(s))))

\* strings.ToLower, on the words of the model that have upper-case letters
Lower(a) ==
    CASE a = "WebSocket" -> "websocket"
      [] a = "Upgrade" -> "upgrade"
      [] a = "Keep-Alive" -> "keep-alive"
      [] OTHER -> a

ToLower(s) == [ i \in 1..Len(s) |-> Lower(s[i]) ]

RECURSIVE Join(_, _)
\* strings.Join(elems, sep)
Join(elems, sep) ==
    IF elems = << >> THEN << >>
    ELSE IF Len(elems) = 1 THEN elems[1]
    ELSE elems[1] \o sep \o Join(Tail(elems), sep)

\* strings.HasPrefix
HasPrefix(s, prefix) == Len(s) >= Len(prefix) /\ SubSeq(s, 1, Len(prefix)) = prefix

\* the headers of the handshake, and a header set that carries none of them
HeaderNames == { "Upgrade", "Connection", "Sec-WebSocket-Version", "Sec-WebSocket-Key",
                 "Sec-WebSocket-Accept", "Sec-WebSocket-Protocol",
                 "Sec-WebSocket-Extensions", "Origin" }

NoHeader == [ h \in HeaderNames |-> << >> ]

\* http.Header.Values and http.Header.Get
Values(headers, h) == headers[h]

Get(headers, h) == IF headers[h] = << >> THEN << >> ELSE headers[h][1]

\* a faulty variant of checkHeaderValue: the header is there, whatever it says
checkHeaderValuePresent(headers, h, v) == Len(Values(headers, h)) # 0

\* checkHeaderValue: some comma-separated part of some value of the header
\* is v, spaces and case apart
checkHeaderValue(headers, h, v) ==
    /\ Len(Values(headers, h)) # 0
    /\ \E i \in 1..Len(Values(headers, h)) :
          \E j \in 1..Len(Split(Values(headers, h)[i], ",")) :
              ToLower(TrimSpace(Split(Values(headers, h)[i], ",")[j])) = ToLower(v)

RECURSIVE splitHeaderValuesBySpace(_)
\* splitHeaderValuesBySpace: the fields of every value, in order
splitHeaderValuesBySpace(strList) ==
    IF strList = << >> THEN << >>
    ELSE [ i \in 1..Len(Fields(Head(strList))) |-> TrimSpace(Fields(Head(strList))[i]) ]
         \o splitHeaderValuesBySpace(Tail(strList))

\* parseExtHeader: the extensions of the first value of the header, each
\* with its name and its parameters
parseExtHeader(h) ==
    IF Get(h, "Sec-WebSocket-Extensions") = << >> THEN << >>
    ELSE [ i \in 1..Len(Split(Get(h, "Sec-WebSocket-Extensions"), ",")) |->
             With(Split(TrimSpace(Split(Get(h, "Sec-WebSocket-Extensions"), ",")[i]), ";"),
                  LAMBDA extParams :
                    [ name |-> TrimSpace(extParams[1]),
                      params |-> [ k \in 1..(Len(extParams) - 1) |->
                                     TrimSpace(extParams[k + 1]) ] ]) ]

\* the cases of the switch of isFlateIsTakeover that go on to the next
\* parameter
KnownParam(p) ==
    \/ p = << "client_no_context_takeover" >>
    \/ p = << "server_no_context_takeover" >>
    \/ p = << "server_max_window_bits", "=", "15" >>
    \/ p = << "client_max_window_bits" >>
    \/ HasPrefix(p, << "client_max_window_bits", "=" >>)

\* what isFlateIsTakeover returns
Flate(isFlate, isServerNoTakeover, isClientNoTakeover) ==
    [ isFlate |-> isFlate, isServerNoTakeover |-> isServerNoTakeover,
      isClientNoTakeover |-> isClientNoTakeover ]

RECURSIVE isFlateIsTakeover(_)
\* isFlateIsTakeover: the first extension named permessage-deflate whose
\* parameters are all known decides; its flags start from false
isFlateIsTakeover(exts) ==
    IF exts = << >> THEN Flate(FALSE, FALSE, FALSE)
    ELSE IF \/ Head(exts).name # << "permessage-deflate" >>
            \/ \E k \in 1..Len(Head(exts).params) : ~KnownParam(Head(exts).params[k])
    THEN isFlateIsTakeover(Tail(exts))
    ELSE Flate(TRUE,
               \E k \in 1..Len(Head(exts).params) :
                   Head(exts).params[k] = << "client_no_context_takeover" >>,
               \E k \in 1..Len(Head(exts).params) :
                   Head(exts).params[k] = << "server_no_context_takeover" >>)

makeFlateExtHeader(isServerNoTakeover, isClientNoTakeover) ==
    << "permessage-deflate" >>
    \o (IF isServerNoTakeover THEN << ";", " ", "client_no_context_takeover" >> ELSE << >>)
    \o (IF isClientNoTakeover THEN << ";", " ", "server_no_context_takeover" >> ELSE << >>)
    \o << "\r\n" >>

\* the keys of the model and base64.StdEncoding.DecodeString on them: the
\* length of the decoded key, -1 for an error
GoodKey == << "dGhlIHNhbXBsZSBub25jZQ==" >>

ShortKey == << "c2hvcnQ=" >>

OtherKey == << "AQIDBAUGBwgJCgsMDQ4PEA==" >>

BadKey == << "not*base64" >>

DecodedLen(key) ==
    IF key \in { GoodKey, OtherKey } THEN 16 ELSE IF key = ShortKey THEN 5 ELSE -1

isValidKey(key) ==
    IF key = << >> THEN FALSE
    ELSE IF DecodedLen(key) < 0 THEN FALSE
    ELSE DecodedLen(key) = 16

(***************************************************************************)
(* makeKeyHash: crypto/sha1 and encoding/base64 as the code calls them.   *)
(* A 32-bit word is the pair << high 16 bits, low 16 bits >>.             *)
(***************************************************************************)
\* `v := f()` with v evaluated once, then the rest K
Bind(v, K(_)) == CHOOSE r \in { K(x) : x \in { v } } : TRUE

RECURSIVE AndBits(_, _, _)
\* a & b on n-bit unsigned integers
AndBits(a, b, n) ==
    IF n = 0 THEN 0
    ELSE ((a % 2) * (b % 2)) + 2 * AndBits(a \div 2, b \div 2, n - 1)

And32(a, b) == << AndBits(a[1], b[1], 16), AndBits(a[2], b[2], 16) >>

Xor32(a, b) == << XorBits(a[1], b[1], 16), XorBits(a[2], b[2], 16) >>

Or32(a, b) == << a[1] + b[1] - AndBits(a[1], b[1], 16), a[2] + b[2] - AndBits(a[2], b[2], 16) >>

Not32(a) == << 65535 - a[1], 65535 - a[2] >>

\* a + b modulo 2^32
Add32(a, b) ==
    << (a[1] + b[1] + ((a[2] + b[2]) \div 65536)) % 65536, (a[2] + b[2]) % 65536 >>

\* bits.RotateLeft32(a, k) for 0 < k < 16, and for 16 + k
RotlLow(a, k) ==
    << ((a[1] * (2 ^ k)) % 65536) + (a[2] \div (2 ^ (16 - k))),
       ((a[2] * (2 ^ k)) % 65536) + (a[1] \div (2 ^ (16 - k))) >>

RotateLeft32(a, k) ==
    IF k = 16 THEN << a[2], a[1] >>
    ELSE IF k < 16 THEN RotlLow(a, k)
    ELSE RotlLow(<< a[2], a[1] >>, k - 16)

\* the initial chaining value and the round constants of SHA-1
sha1Init == << << 26437, 8961 >>, << 61389, 43913 >>, << 39098, 56574 >>,
               << 4146, 21622 >>, << 50130, 57840 >> >>

sha1K(t) ==
    IF t <= 20 THEN << 23170, 31129 >>
    ELSE IF t <= 40 THEN << 28377, 60321 >>
    ELSE IF t <= 60 THEN << 36635, 48348 >>
    ELSE << 51810, 49622 >>

sha1F(t, b, c, d) ==
    IF t <= 20 THEN Or32(And32(b, c), And32(Not32(b), d))
    ELSE IF t <= 40 THEN Xor32(Xor32(b, c), d)
    ELSE IF t <= 60 THEN Or32(Or32(And32(b, c), And32(b, d)), And32(c, d))
    ELSE Xor32(Xor32(b, c), d)

\* the message with the padding of SHA-1: 0x80, zeros up to 56 modulo 64,
\* then the length in bits as a 64-bit big-endian integer
sha1Pad(msg) ==
    LET n == Len(msg)
        zeros == (119 - (n % 64)) % 64
    IN  msg \o << 128 >> \o [ i \in 1..zeros |-> 0 ]
            \o << 0, 0, 0, 0,
                  ((n * 8) \div 16777216) % 256, ((n * 8) \div 65536) % 256,
                  ((n * 8) \div 256) % 256, (n * 8) % 256 >>

\* the sixteen big-endian words of block number k (from 0)
sha1Words(p, k) ==
    [ i \in 1..16 |->
        << p[64 * k + 4 * i - 3] * 256 + p[64 * k + 4 * i - 2],
           p[64 * k + 4 * i - 1] * 256 + p[64 * k + 4 * i] >> ]

\* one more word of the message schedule
sha1Extend(w, t) ==
    Append(w, RotateLeft32(Xor32(Xor32(w[t - 3], w[t - 8]),
                                 Xor32(w[t - 14], w[t - 16])), 1))

RECURSIVE sha1Schedule(_, _, _)
\* the message schedule with the words t..last added, the range halved so
\* that the evaluation stays shallow
sha1Schedule(w, t, last) ==
    IF t = last THEN sha1Extend(w, t)
    ELSE Bind(sha1Schedule(w, t, (t + last) \div 2),
              LAMBDA x : sha1Schedule(x, ((t + last) \div 2) + 1, last))

\* one round on << a, b, c, d, e >>
sha1Round(s, wt, t) ==
    << Add32(Add32(Add32(RotateLeft32(s[1], 5), sha1F(t, s[2], s[3], s[4])),
                   Add32(s[5], sha1K(t))), wt),
       s[1], RotateLeft32(s[2], 30), s[3], s[4] >>

RECURSIVE sha1Rounds(_, _, _, _)
\* the rounds t..last
sha1Rounds(s, w, t, last) ==
    IF t = last THEN sha1Round(s, w[t], t)
    ELSE Bind(sha1Rounds(s, w, t, (t + last) \div 2),
              LAMBDA x : sha1Rounds(x, w, ((t + last) \div 2) + 1, last))

\* the chaining value after one more block
sha1Block(h, w) ==
    Bind(sha1Rounds(h, w, 1, 80), LAMBDA s : [ i \in 1..5 |-> Add32(h[i], s[i]) ])

RECURSIVE sha1Blocks(_, _, _)
sha1Blocks(h, p, k) ==
    IF 64 * k >= Len(p) THEN h
    ELSE Bind(sha1Block(h, sha1Schedule(sha1Words(p, k), 17, 80)),
              LAMBDA x : sha1Blocks(x, p, k + 1))

\* sha1: the digest of the bytes written, twenty bytes
sha1Sum(msg) ==
    Bind(sha1Blocks(sha1Init, sha1Pad(msg), 0), LAMBDA h :
      [ i \in 1..20 |->
          LET word == h[(i + 3) \div 4]
              half == IF (i - 1) % 4 < 2 THEN word[1] ELSE word[2]
          IN  IF i % 2 = 1 THEN half \div 256 ELSE half % 256 ])

\* the alphabet of base64.StdEncoding
encodeStd ==
    << "A", "B", "C", "D", "E", "F", "G", "H", "I", "J", "K", "L", "M",
       "N", "O", "P", "Q", "R", "S", "T", "U", "V", "W", "X", "Y", "Z",
       "a", "b", "c", "d", "e", "f", "g", "h", "i", "j", "k", "l", "m",
       "n", "o", "p", "q", "r", "s", "t", "u", "v", "w", "x", "y", "z",
       "0", "1", "2", "3", "4", "5", "6", "7", "8", "9", "+", "/" >>

RECURSIVE EncodeToString(_)
\* base64.StdEncoding.EncodeToString: three bytes make four characters, a
\* shorter last group is padded with "="
EncodeToString(src) ==
    IF Len(src) = 0 THEN ""
    ELSE IF Len(src) = 1
      THEN encodeStd[(src[1] \div 4) + 1] \o encodeStd[((src[1] % 4) * 16) + 1] \o "=="
    ELSE IF Len(src) = 2
      THEN encodeStd[(src[1] \div 4) + 1]
             \o encodeStd[((src[1] % 4) * 16) + (src[2] \div 16) + 1]
             \o encodeStd[((src[2] % 16) * 4) + 1] \o "="
    ELSE encodeStd[(src[1] \div 4) + 1]
           \o encodeStd[((src[1] % 4) * 16) + (src[2] \div 16) + 1]
           \o encodeStd[((src[2] % 16) * 4) + (src[3] \div 64) + 1]
           \o encodeStd[(src[3] % 64) + 1]
           \o EncodeToString(SubSeq(src, 4, Len(src)))

\* []byte(s) for the strings the model hashes
StringBytes ==
    [ s \in { "dGhlIHNhbXBsZSBub25jZQ==", "AQIDBAUGBwgJCgsMDQ4PEA==", "c2hvcnQ=",
              "not*base64", KEY_GUID } |->
        IF s = "dGhlIHNhbXBsZSBub25jZQ=="
        THEN << 100, 71, 104, 108, 73, 72, 78, 104, 98, 88, 66, 115,
                90, 83, 66, 117, 98, 50, 53, 106, 90, 81, 61, 61 >>
        ELSE IF s = "AQIDBAUGBwgJCgsMDQ4PEA=="
        THEN << 65, 81, 73, 68, 66, 65, 85, 71, 66, 119, 103, 74,
                67, 103, 115, 77, 68, 81, 52, 80, 69, 65, 61, 61 >>
        ELSE IF s = "c2hvcnQ="
        THEN << 99, 50, 104, 118, 99, 110, 81, 61 >>
        ELSE IF s = "not*base64"
        THEN << 110, 111, 116, 42, 98, 97, 115, 101, 54, 52 >>
        ELSE << 50, 53, 56, 69, 65, 70, 65, 53, 45, 69, 57, 49, 52, 45, 52, 55, 68, 65,
                45, 57, 53, 67, 65, 45, 67, 53, 65, 66, 48, 68, 67, 56, 53, 66, 49, 49 >> ]

RECURSIVE ByteSlice(_)
\* []byte(key) of a string of the model
ByteSlice(str) ==
    IF str = << >> THEN << >> ELSE StringBytes[str[1]] \o ByteSlice(Tail(str))

\* a faulty variant of makeKeyHash: the GUID as the protocol notes of the
\* repository print it, without its first character
makeKeyHashNotes(key) ==
    << EncodeToString(sha1Sum(ByteSlice(key) \o Tail(StringBytes[KEY_GUID]))) >>

\* makeKeyHash: h.Write(key), h.Write(KEY_GUID), then the base64 of h.Sum(nil)
makeKeyHash(key) ==
    << EncodeToString(sha1Sum(ByteSlice(key) \o StringBytes[KEY_GUID])) >>

\* makeKeyHash on the keys of the model, each computed once
keyHashes == [ key \in { GoodKey, OtherKey, ShortKey, BadKey } |-> makeKeyHash(key) ]

\* url.Parse on the Origin values of the model: the host of the URL, or an
\* error
UrlParse(s) ==
    IF s = << "http://example.com" >> THEN [ err |-> FALSE, Host |-> "example.com" ]
    ELSE IF s = << "http://evil.example" >> THEN [ err |-> FALSE, Host |-> "evil.example" ]
    ELSE [ err |-> TRUE, Host |-> "" ]

checkSameOrigin(r) ==
    IF Len(r.Header["Origin"]) = 0 THEN TRUE
    ELSE IF UrlParse(r.Header["Origin"][1]).err THEN FALSE
    ELSE UrlParse(r.Header["Origin"][1]).Host = r.Host

RECURSIVE FirstContained(_, _)
\* the first string of the list that the list among holds, "" if none
FirstContained(list, among) ==
    IF list = << >> THEN << >>
    ELSE IF \E i \in 1..Len(among) : among[i] = Head(list) THEN Head(list)
    ELSE FirstContained(Tail(list), among)

\* Upgrader.selectSubprotocol: the first field of the client's header values
\* that u.Subprotocols contains
selectSubprotocol(u, headers) ==
    FirstContained(splitHeaderValuesBySpace(Values(headers, "Sec-WebSocket-Protocol")),
                   u.Subprotocols)

\* the connection of a handshake, as newConn builds it; no connection
Conn(cfg, subprotocol, server) ==
    [ kind |-> "Conn", isServer |-> server, subprotocol |-> subprotocol,
      cc |-> newConn(cfg) ]

NoConn == [ kind |-> "nil" ]

\* nothing written through the http.ResponseWriter; nothing written to the
\* stream
NoResponse == [ StatusCode |-> 0, Header |-> NoHeader ]

NoHandshakeBytes == [ StatusCode |-> 0, lines |-> << >> ]

Line(name, value) == [ name |-> name, value |-> value ]

\* what upgradeConnection returns (conn, code, err), with what it did to the
\* stream: whether it hijacked it, the handshake it wrote to it, and the
\* outcome of isFlateIsTakeover on the way
Upgraded(c, code, err, hijacked, handshake, flate) ==
    [ conn |-> c, code |-> code, err |-> err, hijacked |-> hijacked,
      handshake |-> handshake, flate |-> flate ]

Refused(code, err) ==
    Upgraded(NoConn, code, err, FALSE, NoHandshakeBytes, Flate(FALSE, FALSE, FALSE))

\* Upgrader.upgradeConnection from the hijack on: hijack is what Hijack()
\* returns
upgradeHijack(u, newKey, subprotocol, f, hijack) ==
    IF hijack # "ok"
    THEN Upgraded(NoConn, 500, "websocket: error while hijacking", FALSE,
                  NoHandshakeBytes, f)
    ELSE Upgraded(
           Conn([ Enabled |-> u.CompressionConfig.Enabled /\ f.isFlate,
                  IsContextTakeover |->
                      /\ u.CompressionConfig.IsContextTakeover
                      /\ ~(u.CompressionConfig.Enabled /\ f.isServerNoTakeover),
                  CompressionThreshold |-> u.CompressionConfig.CompressionThreshold ],
                subprotocol, TRUE),
           101, NoErr, TRUE,
           [ StatusCode |-> 101,
             lines |->
               << Line("Upgrade", << "websocket", "\r\n" >>),
                  Line("Connection", << "Upgrade", "\r\n" >>),
                  Line("Sec-WebSocket-Accept", newKey \o << "\r\n" >>) >>
               \o (IF subprotocol # << >>
                   THEN << Line("Sec-WebSocket-Protocol", subprotocol \o << "\r\n" >>) >>
                   ELSE << >>)
               \o (IF u.CompressionConfig.Enabled /\ f.isFlate
                   THEN << Line("Sec-WebSocket-Extensions",
                                makeFlateExtHeader(f.isServerNoTakeover,
                                                   f.isClientNoTakeover)) >>
                   ELSE << >>) ],
           f)

\* Upgrader.upgradeConnection; u.CheckOrigin is nil or a hook that allows or
\* denies
upgradeConnection(u, r, hijack) ==
    IF r.Method # "GET"
    THEN Refused(400, "websocket: method not allowed")
    ELSE IF ~checkHeaderValue(r.Header, "Upgrade", << "websocket" >>)
    THEN Refused(400, "websocket: missing/mismatched required Upgrade header")
    ELSE IF ~checkHeaderValue(r.Header, "Connection", << "Upgrade" >>)
    THEN Refused(400, "websocket: missing/mismatched required Connection header")
    ELSE IF ~checkHeaderValue(r.Header, "Sec-WebSocket-Version", VERSION)
    THEN Refused(400, "websocket: missing/mismatched Sec-WebSocket-Version header")
    ELSE IF ~(IF u.CheckOrigin = "nil" THEN checkSameOrigin(r) ELSE u.CheckOrigin = "allow")
    THEN Refused(400, "websocket: client failed Upgrader.CheckOrigin method")
    ELSE IF Get(r.Header, "Sec-WebSocket-Key") = << >>
    THEN Refused(400, "websocket: no Sec-WebSocket-Key header found")
    ELSE IF ~isValidKey(Get(r.Header, "Sec-WebSocket-Key"))
    THEN Refused(400, "websocket: invalid challange key value")
    ELSE upgradeHijack(u, keyHashes[Get(r.Header, "Sec-WebSocket-Key")],
                       selectSubprotocol(u, r.Header),
                       isFlateIsTakeover(parseExtHeader(r.Header)), hijack)

\* Upgrader.Upgrade and Upgrader.UpgradeNoResponse: the result of
\* upgradeConnection with what went through the http.ResponseWriter, which
\* is the error response of Upgrade and nothing else
Upgrade(u, r, hijack) ==
    With(upgradeConnection(u, r, hijack), LAMBDA s :
      [ entry |-> "Upgrade", conn |-> s.conn, code |-> s.code, err |-> s.err,
        hijacked |-> s.hijacked, handshake |-> s.handshake, flate |-> s.flate,
        w |-> IF s.err # NoErr
              THEN [ StatusCode |-> s.code,
                     Header |-> [ NoHeader EXCEPT !["Sec-WebSocket-Version"] = << VERSION >> ] ]
              ELSE NoResponse ])

UpgradeNoResponse(u, r, hijack) ==
    With(upgradeConnection(u, r, hijack), LAMBDA s :
      [ entry |-> "UpgradeNoResponse", conn |-> s.conn, code |-> s.code, err |-> s.err,
        hijacked |-> s.hijacked, handshake |-> s.handshake, flate |-> s.flate,
        w |-> NoResponse ])

RECURSIVE NewlineToSpace(_)
\* net/http writes a header value with "\r" and "\n" each replaced by a space
NewlineToSpace(s) ==
    IF s = << >> THEN << >>
    ELSE (IF Head(s) = "\r\n" THEN << " ", " " >> ELSE << Head(s) >>)
         \o NewlineToSpace(Tail(s))

\* Request.Write and the server's reading of the request: every value
\* arrives with its newlines replaced and the space around it trimmed
RequestRead(req) ==
    [ req EXCEPT !.Header = [ h \in HeaderNames |->
        [ i \in 1..Len(req.Header[h]) |-> TrimSpace(NewlineToSpace(req.Header[h][i])) ] ] ]

\* the value of a header line up to the end of the line, trimmed
LineValue(value) == TrimSpace(SubSeq(value, 1, IndexAny(value, { "\r\n" }) - 1))

\* the lines of the sequence that carry the header h
LinesOf(lines, h) == SelectSeq(lines, LAMBDA l : l.name = h)

\* http.ReadResponse on the handshake the server wrote to the stream
ReadResponse(handshake) ==
    [ StatusCode |-> handshake.StatusCode,
      Header |-> [ h \in HeaderNames |->
                     [ i \in 1..Len(LinesOf(handshake.lines, h)) |->
                         LineValue(LinesOf(handshake.lines, h)[i].value) ] ] ]

\* the request Dialer.Dial builds (lines 79-119) with the key of makeKey
DialRequest(d, key) ==
    [ Method |-> "GET", Host |-> "example.com",
      Header |-> [ NoHeader EXCEPT
        !["Upgrade"] = << << "websocket" >> >>,
        !["Connection"] = << << "Upgrade" >> >>,
        !["Sec-WebSocket-Key"] = << key >>,
        !["Sec-WebSocket-Version"] = << VERSION >>,
        !["Sec-WebSocket-Protocol"] =
            IF Len(d.Subprotocols) > 0
            THEN << Join(d.Subprotocols, << ",", " " >>) >> ELSE << >>,
        !["Sec-WebSocket-Extensions"] =
            IF d.CompressionConfig.Enabled
            THEN << makeFlateExtHeader(~d.CompressionConfig.IsContextTakeover, FALSE) >>
            ELSE << >> ] ]

ErrHandshake == "ErrHandshake"

\* what Dial returns, and whether its deferred function closed the stream
Dialed(c, err, streamClosed) == [ conn |-> c, err |-> err, netClosed |-> streamClosed ]

\* Dialer.Dial from the response on (lines 160-202)
DialResponse(d, keyHash, res) ==
    IF \/ res.StatusCode # 101
       \/ ~checkHeaderValue(res.Header, "Upgrade", << "websocket" >>)
       \/ ~checkHeaderValue(res.Header, "Connection", << "Upgrade" >>)
       \/ Get(res.Header, "Sec-WebSocket-Accept") # keyHash
    THEN Dialed(NoConn, ErrHandshake, TRUE)
    ELSE IF Get(res.Header, "Sec-WebSocket-Version") # << >>
    THEN Dialed(NoConn, ErrHandshake, TRUE)
    ELSE IF Len(d.Subprotocols) = 0 /\ Get(res.Header, "Sec-WebSocket-Protocol") # << >>
    THEN Dialed(NoConn, ErrHandshake, TRUE)
    ELSE With(isFlateIsTakeover(parseExtHeader(res.Header)), LAMBDA f :
           Dialed(Conn([ Enabled |-> d.CompressionConfig.Enabled /\ f.isFlate,
                         IsContextTakeover |->
                             /\ d.CompressionConfig.IsContextTakeover
                             /\ ~(d.CompressionConfig.Enabled /\ f.isClientNoTakeover),
                         CompressionThreshold |->
                             d.CompressionConfig.CompressionThreshold ],
                       Get(res.Header, "Sec-WebSocket-Protocol"), FALSE),
                  NoErr, FALSE))

(***************************************************************************)
(* The two ends and what travels between them.  A request of a peer that   *)
(* is not the Dialer is described by what it carries (rq: the tokens of    *)
(* each header line, the kind of origin and of key, the subprotocols and   *)
(* the extension offers of each header line) and written out as the HTTP   *)
(* request the server is handed (r).                                       *)
(***************************************************************************)
CompressionConfigs ==
    { [ Enabled |-> FALSE, IsContextTakeover |-> FALSE, CompressionThreshold |-> 0 ],
      [ Enabled |-> TRUE, IsContextTakeover |-> FALSE, CompressionThreshold |-> 0 ],
      [ Enabled |-> TRUE, IsContextTakeover |-> TRUE, CompressionThreshold |-> 0 ] }

\* the Upgraders: CheckOrigin nil or a hook, Subprotocols in order of
\* preference
Upgraders ==
    { [ CheckOrigin |-> o, Subprotocols |-> s, CompressionConfig |-> c ] :
        o \in { "nil", "allow", "deny" },
        s \in { << >>, << << "chat" >> >>, << << "chat" >>, << "superchat" >> >>,
                << << "superchat" >>, << "chat" >> >> },
        c \in CompressionConfigs }

Dialers ==
    { [ Subprotocols |-> s, CompressionConfig |-> c ] :
        s \in { << >>, << << "chat" >> >>, << << "chat" >>, << "superchat" >> >> },
        c \in CompressionConfigs }

NoUpgrader == [ CheckOrigin |-> "nil", Subprotocols |-> << >>,
                CompressionConfig |-> [ Enabled |-> FALSE, IsContextTakeover |-> FALSE,
                                        CompressionThreshold |-> 0 ] ]

NoDialer == [ Subprotocols |-> << >>,
              CompressionConfig |-> [ Enabled |-> FALSE, IsContextTakeover |-> FALSE,
                                      CompressionThreshold |-> 0 ] ]

\* an extension offer: a name and parameters, each a name with a value or
\* none
Param(name, value) == [ name |-> name, value |-> value ]

Offer(name, params) == [ name |-> name, params |-> params ]

PMD(params) == Offer("permessage-deflate", params)

CNCT == Param("client_no_context_takeover", "")
SNCT == Param("server_no_context_takeover", "")

\* the request of a well-behaved client that asks for nothing
PlainRequest ==
    [ Method |-> "GET", Upgrade |-> << << "websocket" >> >>,
      Connection |-> << << "Upgrade" >> >>, Version |-> << << "13" >> >>,
      Origin |-> "none", Key |-> "good", protocols |-> << >>, offers |-> << >> ]

\* the requests of the peers: the plain request changed in one place
PeerRequests ==
    { PlainRequest, [ PlainRequest EXCEPT !.Method = "POST" ],
      [ PlainRequest EXCEPT !.Method = "POST", !.Version = << << "8" >> >>,
                            !.Key = "none" ] }
    \cup { [ PlainRequest EXCEPT !.Upgrade = v ] :
             v \in { << >>, << << "WebSocket" >> >>, << << "h2c", "websocket" >> >>,
                     << << "h2c" >>, << "websocket" >> >>, << << "h2c" >> >> } }
    \cup { [ PlainRequest EXCEPT !.Connection = v ] :
             v \in { << >>, << << "Keep-Alive", "Upgrade" >> >>, << << "upgrade" >> >>,
                     << << "close" >> >> } }
    \cup { [ PlainRequest EXCEPT !.Version = v ] :
             v \in { << >>, << << "8" >> >>, << << "8", "13" >> >> } }
    \cup { [ PlainRequest EXCEPT !.Origin = v ] : v \in { "same", "other", "bad" } }
    \cup { [ PlainRequest EXCEPT !.Key = v ] : v \in { "none", "short", "bad", "other" } }
    \cup { [ PlainRequest EXCEPT !.protocols = v ] :
             v \in { << << "chat" >> >>, << << "chat", "superchat" >> >>,
                     << << "superchat", "chat" >> >>, << << "chat" >>, << "superchat" >> >>,
                     << << "mqtt" >> >> } }
    \cup { [ PlainRequest EXCEPT !.offers = v ] :
             v \in { << << PMD(<< >>) >> >>,
                     << << PMD(<< CNCT >>) >> >>,
                     << << PMD(<< SNCT, Param("client_max_window_bits", "") >>) >> >>,
                     << << PMD(<< Param("server_max_window_bits", "15"),
                                  Param("client_max_window_bits", "10") >>) >> >>,
                     << << PMD(<< Param("server_max_window_bits", "10") >>),
                           PMD(<< CNCT >>) >> >>,
                     << << Offer("x-webkit-deflate-frame", << >>), PMD(<< SNCT >>) >> >>,
                     << << PMD(<< CNCT >>), PMD(<< SNCT >>) >> >>,
                     << << PMD(<< Param("foo", "") >>) >> >>,
                     << << Offer("x-webkit-deflate-frame", << >>) >>,
                        << PMD(<< >>) >> >>,
                     << << PMD(<< Param("server_max_window_bits", "10") >>) >>,
                        << PMD(<< CNCT >>) >> >> } }

\* a word as a string; the tokens of a header line joined by ", "
Word(a) == << a >>

TokenList(tokens) == Join([ j \in 1..Len(tokens) |-> Word(tokens[j]) ], << ",", " " >>)

RECURSIVE ParamList(_)
ParamList(params) ==
    IF params = << >> THEN << >>
    ELSE << ";", " ", Head(params).name >>
         \o (IF Head(params).value = "" THEN << >> ELSE << "=", Head(params).value >>)
         \o ParamList(Tail(params))

OfferList(offers) ==
    Join([ j \in 1..Len(offers) |-> Word(offers[j].name) \o ParamList(offers[j].params) ],
         << ",", " " >>)

\* the HTTP request of the description rq, as the server is handed it
PeerRequest(rq) ==
    [ Method |-> rq.Method, Host |-> "example.com",
      Header |-> [ NoHeader EXCEPT
        !["Upgrade"] = [ i \in 1..Len(rq.Upgrade) |-> TokenList(rq.Upgrade[i]) ],
        !["Connection"] = [ i \in 1..Len(rq.Connection) |-> TokenList(rq.Connection[i]) ],
        !["Sec-WebSocket-Version"] =
            [ i \in 1..Len(rq.Version) |-> TokenList(rq.Version[i]) ],
        !["Origin"] = CASE rq.Origin = "none" -> << >>
                        [] rq.Origin = "same" -> << << "http://example.com" >> >>
                        [] rq.Origin = "other" -> << << "http://evil.example" >> >>
                        [] OTHER -> << << ":bad" >> >>,
        !["Sec-WebSocket-Key"] = CASE rq.Key = "none" -> << >>
                                   [] rq.Key = "good" -> << GoodKey >>
                                   [] rq.Key = "short" -> << ShortKey >>
                                   [] rq.Key = "other" -> << OtherKey >>
                                   [] OTHER -> << BadKey >>,
        !["Sec-WebSocket-Protocol"] =
            [ i \in 1..Len(rq.protocols) |-> TokenList(rq.protocols[i]) ],
        !["Sec-WebSocket-Extensions"] =
            [ i \in 1..Len(rq.offers) |-> OfferList(rq.offers[i]) ] ] ]

\* what the request of the Dialer d carries
DialerRequest(d) ==
    [ PlainRequest EXCEPT
        !.protocols = IF d.Subprotocols = << >> THEN << >>
                      ELSE << [ j \in 1..Len(d.Subprotocols) |-> d.Subprotocols[j][1] ] >>,
        !.offers = IF d.CompressionConfig.Enabled
                   THEN << << PMD(IF d.CompressionConfig.IsContextTakeover
                                  THEN << >> ELSE << CNCT >>) >> >>
                   ELSE << >> ]

\* the response of a well-behaved server to the key, and the responses of
\* the peers: that response changed in one place
PlainResponse(key) ==
    [ StatusCode |-> 101,
      Header |-> [ NoHeader EXCEPT !["Upgrade"] = << << "websocket" >> >>,
                                   !["Connection"] = << << "Upgrade" >> >>,
                                   !["Sec-WebSocket-Accept"] = << keyHashes[key] >> ] ]

WithHeader(res, h, values) == [ res EXCEPT !.Header[h] = values ]

\* the extensions the responses of the peers acknowledge
PeerAcks ==
    { << PMD(<< >>) >>, << PMD(<< SNCT >>) >>, << PMD(<< CNCT >>) >>,
      << Offer("x-webkit-deflate-frame", << >>) >>, << PMD(<< Param("foo", "") >>) >> }

\* a response as http.ReadResponse returns it, with the extensions it
\* acknowledges
Answer(res, exts) == [ res |-> res, exts |-> exts ]

PeerResponses(key) ==
    { Answer(res, << >>) : res \in
        { PlainResponse(key),
          [ PlainResponse(key) EXCEPT !.StatusCode = 200 ],
          [ StatusCode |-> 400,
            Header |-> [ NoHeader EXCEPT !["Sec-WebSocket-Version"] = << VERSION >> ] ] }
        \cup { WithHeader(PlainResponse(key), "Upgrade", v) :
                 v \in { << >>, << << "WebSocket" >> >>, << << "h2c" >> >> } }
        \cup { WithHeader(PlainResponse(key), "Connection", v) :
                 v \in { << >>, << << "Keep-Alive", ",", " ", "Upgrade" >> >>,
                         << << "close" >> >> } }
        \cup { WithHeader(PlainResponse(key), "Sec-WebSocket-Accept", v) :
                 v \in { << >>, << keyHashes[OtherKey] >> } }
        \cup { WithHeader(PlainResponse(key), "Sec-WebSocket-Version", v) :
                 v \in { << VERSION >>, << << >> >> } }
        \cup { WithHeader(PlainResponse(key), "Sec-WebSocket-Protocol", v) :
                 v \in { << << "chat" >> >>, << << "mqtt" >> >> } } }
    \cup { Answer(WithHeader(PlainResponse(key), "Sec-WebSocket-Extensions",
                             << OfferList(exts) >>), exts) : exts \in PeerAcks }

\* the extension the handshake of the Upgrader acknowledges
UpgraderAck(u, f) ==
    IF u.CompressionConfig.Enabled /\ f.isFlate
    THEN << PMD((IF f.isServerNoTakeover THEN << CNCT >> ELSE << >>)
                \o (IF f.isClientNoTakeover THEN << SNCT >> ELSE << >>)) >>
    ELSE << >>

\* no answer of the server yet; no return of Dial yet
NoServer ==
    [ entry |-> "none", conn |-> NoConn, code |-> 0, err |-> NoErr, hijacked |-> FALSE,
      handshake |-> NoHandshakeBytes, flate |-> Flate(FALSE, FALSE, FALSE),
      w |-> NoResponse ]

NoClient == [ conn |-> NoConn, err |-> NoErr, netClosed |-> FALSE ]

HandshakeInit ==
    /\ Parked
    /\ applied = NoCall
    /\ hs = NoHandshake
    /\ wr = NoWrites
    /\ fl = NoFlate

\* Dialer.Dial up to req.Write (lines 53-145): the request goes out
DialWrite ==
    /\ hs.at = "none"
    /\ \E d \in Dialers :
         hs' = [ at |-> "requested", by |-> "Dialer", d |-> d, key |-> GoodKey,
                 rq |-> DialerRequest(d), r |-> RequestRead(DialRequest(d, GoodKey)),
                 u |-> NoUpgrader, server |-> NoServer, res |-> NoResponse,
                 ack |-> << >>, client |-> NoClient ]
    /\ UNCHANGED << conn, applied, wr, fl >>

\* a client that is not the Dialer sends its request
PeerWrite ==
    /\ hs.at = "none"
    /\ \E rq \in PeerRequests :
         hs' = [ at |-> "requested", by |-> "peer", d |-> NoDialer, key |-> << >>,
                 rq |-> rq, r |-> PeerRequest(rq),
                 u |-> NoUpgrader, server |-> NoServer, res |-> NoResponse,
                 ack |-> << >>, client |-> NoClient ]
    /\ UNCHANGED << conn, applied, wr, fl >>

\* the handler of the server calls Upgrader.Upgrade or
\* Upgrader.UpgradeNoResponse on the request; Hijack() succeeds or fails
Serve ==
    /\ hs.at = "requested"
    /\ \E u \in Upgraders, hijack \in { "ok", "err" } :
         \E s \in { Upgrade(u, hs.r, hijack), UpgradeNoResponse(u, hs.r, hijack) } :
            hs' = [ hs EXCEPT !.at = "answered", !.u = u, !.server = s ]
    /\ UNCHANGED << conn, applied, wr, fl >>

\* Dialer.Dial from http.ReadResponse on (lines 147-203), on what the
\* Upgrader wrote: its handshake, or the error response of Upgrade
DialRead ==
    /\ hs.at = "answered"
    /\ hs.by = "Dialer"
    /\ hs.server.hijacked \/ hs.server.w # NoResponse
    /\ \E res \in { IF hs.server.hijacked THEN ReadResponse(hs.server.handshake)
                    ELSE hs.server.w } :
         hs' = [ hs EXCEPT !.at = "done", !.res = res,
                           !.ack = UpgraderAck(hs.u, hs.server.flate),
                           !.client = DialResponse(hs.d, keyHashes[hs.key], res) ]
    /\ UNCHANGED << conn, applied, wr, fl >>

\* Dialer.Dial from http.ReadResponse on, on the response of a server that
\* is not the Upgrader
DialReadPeer ==
    /\ hs.at = "requested"
    /\ hs.by = "Dialer"
    /\ \E a \in PeerResponses(hs.key) :
         hs' = [ hs EXCEPT !.at = "done", !.res = a.res, !.ack = a.exts,
                           !.client = DialResponse(hs.d, keyHashes[hs.key], a.res) ]
    /\ UNCHANGED << conn, applied, wr, fl >>

HandshakeNext ==
    \/ DialWrite
    \/ PeerWrite
    \/ Serve
    \/ DialRead
    \/ DialReadPeer

HandshakeSpec == HandshakeInit /\ [][HandshakeNext]_vars

(***************************************************************************)
(* The vocabulary of the handshake properties.  What a request carries is  *)
(* read from its description hs.rq, never from the header values the       *)
(* server parses.                                                          *)
(***************************************************************************)
\* the server has returned from Upgrade or UpgradeNoResponse
Answered == hs.at \in { "answered", "done" } /\ hs.server.entry # "none"

\* Dial has returned
DialDone == hs.at = "done"

\* some line of the header carries the token, case apart
HasToken(lines, token) ==
    \E i \in 1..Len(lines) : \E j \in 1..Len(lines[i]) :
        Lower(lines[i][j]) = Lower(token)

\* the origin check: the hook of the Upgrader, or by default no Origin or
\* the Origin of the host
OriginAllowed ==
    IF hs.u.CheckOrigin = "nil" THEN hs.rq.Origin \in { "none", "same" }
    ELSE hs.u.CheckOrigin = "allow"

VersionMatches == HasToken(hs.rq.Version, "13")

\* every check of the server handshake passes on the request
ChecksPass ==
    /\ hs.rq.Method = "GET"
    /\ HasToken(hs.rq.Upgrade, "websocket")
    /\ HasToken(hs.rq.Connection, "upgrade")
    /\ VersionMatches
    /\ OriginAllowed
    /\ hs.rq.Key \in { "good", "other" }

RECURSIVE Flatten(_)
\* the entries of every line of a header, in header order
Flatten(lines) == IF lines = << >> THEN << >> ELSE Head(lines) \o Flatten(Tail(lines))

\* the subprotocols the client offers, as strings
OfferedProtocols ==
    [ j \in 1..Len(Flatten(hs.rq.protocols)) |-> Word(Flatten(hs.rq.protocols)[j]) ]

\* the first entry of the server's list that the client offers, "" if none
PreferredProtocol == FirstContained(hs.u.Subprotocols, OfferedProtocols)

\* the lines of the 101 response that carry the header h
ResponseLines(h) == LinesOf(hs.server.handshake.lines, h)

AcceptableParam(p) ==
    \/ p.name \in { "client_no_context_takeover", "server_no_context_takeover" }
         /\ p.value = ""
    \/ p.name = "server_max_window_bits" /\ p.value = "15"
    \/ p.name = "client_max_window_bits"

AcceptableOffer(o) ==
    /\ o.name = "permessage-deflate"
    /\ \A k \in 1..Len(o.params) : AcceptableParam(o.params[k])

RECURSIVE Negotiated(_)
\* the outcome the first acceptable offer of the list decides
Negotiated(offers) ==
    IF offers = << >> THEN Flate(FALSE, FALSE, FALSE)
    ELSE IF ~AcceptableOffer(Head(offers)) THEN Negotiated(Tail(offers))
    ELSE Flate(TRUE,
               \E k \in 1..Len(Head(offers).params) : Head(offers).params[k] = CNCT,
               \E k \in 1..Len(Head(offers).params) : Head(offers).params[k] = SNCT)

\* the server went through every check and came to the extensions
Negotiating == Answered /\ hs.server.code \in { 101, 500 }

\* some value of the header of the response holds the word, case apart
Names(h, word) ==
    \E i \in 1..Len(hs.res.Header[h]) : \E k \in 1..Len(hs.res.Header[h][i]) :
        Lower(hs.res.Header[h][i][k]) = Lower(word)

\* the response is one the client handshake accepts
ResponseAccepted ==
    /\ hs.res.StatusCode = 101
    /\ Names("Upgrade", "websocket")
    /\ Names("Connection", "upgrade")
    /\ hs.res.Header["Sec-WebSocket-Accept"] # << >>
    /\ hs.res.Header["Sec-WebSocket-Accept"][1] = keyHashes[hs.key]
    /\ hs.res.Header["Sec-WebSocket-Version"] = << >>
    /\ hs.d.Subprotocols = << >> =>
          \/ hs.res.Header["Sec-WebSocket-Protocol"] = << >>
          \/ hs.res.Header["Sec-WebSocket-Protocol"][1] = << >>

\* a handshake between the Dialer and the Upgrader has succeeded at both ends
BothSucceeded ==
    /\ DialDone
    /\ hs.server.hijacked
    /\ hs.client.conn # NoConn

(***************************************************************************)
(* WriteSpec: one caller inside SendMessage and one inside NextMessage on  *)
(* the same connection.  The Conn holds no lock of its own: each of them   *)
(* hands its frame to netConn.Write.  The connections the package creates  *)
(* (net.Dial, tls.Dial, the hijacked connection of net/http) perform a     *)
(* Write under the write lock of the connection, in as many pieces as the  *)
(* socket takes, and fail it once the connection is closed.                *)
(***************************************************************************)
\* how many frames each caller writes
MaxWrites == 2

Callers == { "SendMessage", "NextMessage" }

\* the payloads SendMessage is called with: of one byte, and of two, which a
\* connection with compression deflates
WritePayloads == { << 97 >>, << 97, 97 >> }

\* the frames NextMessage answers inline: a Ping by a Pong, a Close by a
\* Close and the teardown of the connection
InlineFrames ==
    { MkFrame(TRUE, FALSE, FALSE, FALSE, PingFrame, isServer, data, "ok")
        : data \in { << >>, << 159 >> } }
    \cup { MkFrame(TRUE, FALSE, FALSE, FALSE, CloseFrame, isServer, data, "ok")
        : data \in { PutUint16(CloseGoingAway) } }

\* a faulty variant of SendWrites: the header and the payload go to
\* netConn.Write one after the other
SendWritesSplit(payload, mt, key) ==
    LET shouldCompress == cc.Enabled /\ Len(payload) > cc.CompressionThreshold
        body == IF shouldCompress THEN DeFlate(payload) ELSE payload
        headers == [ kind |-> "frame", FIN |-> TRUE, RSV1 |-> shouldCompress,
                     RSV2 |-> FALSE, RSV3 |-> FALSE, Opcode |-> mt,
                     Mask |-> ~isServer, PayloadLength |-> Len(body),
                     MaskingKey |-> key ]
    IN  << makeFrameHeadersBuf(headers),
           IF ~isServer THEN toggleMask(body, key) ELSE body >>

\* the buffers Conn.SendMessage hands to netConn.Write, in order: the header
\* and the payload appended to it, in one buffer
SendWrites(payload, mt, key) ==
    LET shouldCompress == cc.Enabled /\ Len(payload) > cc.CompressionThreshold
        body == IF shouldCompress THEN DeFlate(payload) ELSE payload
        headers == [ kind |-> "frame", FIN |-> TRUE, RSV1 |-> shouldCompress,
                     RSV2 |-> FALSE, RSV3 |-> FALSE, Opcode |-> mt,
                     Mask |-> ~isServer, PayloadLength |-> Len(body),
                     MaskingKey |-> key ]
    IN  << makeFrameHeadersBuf(headers)
             \o (IF ~isServer THEN toggleMask(body, key) ELSE body) >>

\* what the handler of an inline frame does on an open connection: the
\* buffers its sendControl calls hand to netConn.Write, and whether its
\* deferred teardown closes the connection after them
InlineWrites(h, key) ==
    With(handleSingleFrame(h, [ closed |-> FALSE, netClosed |-> FALSE, sent |-> << >> ],
                           "ok", key).e,
         LAMBDA e : [ bufs |-> [ i \in 1..Len(e.sent) |-> e.sent[i].buf ],
                      teardown |-> e.netClosed ])

\* the connection before either caller has come
Unwritten ==
    [ at |-> "open",
      pc |-> [ p \in Callers |-> "idle" ],       \* where each caller stands
      queue |-> [ p \in Callers |-> << >> ],     \* the buffers it has yet to write
      n |-> [ p \in Callers |-> 0 ],             \* the frames it has made
      teardown |-> FALSE,                        \* NextMessage closes after its write
      lock |-> "none",                           \* who holds the write lock
      off |-> 0,                                 \* bytes of the buffer written
      handed |-> << >>,                          \* the buffers of the Write calls
      wire |-> << >>,                            \* the bytes the stream has taken
      netClosed |-> FALSE ]

WriteInit ==
    /\ ConnInit
    /\ applied = NoCall
    /\ hs = NoHandshake
    /\ wr = Unwritten
    /\ fl = NoFlate

\* Conn.SendMessage up to its netConn.Write
SendCall ==
    /\ wr.pc["SendMessage"] = "idle"
    /\ wr.n["SendMessage"] < MaxWrites
    /\ \E payload \in WritePayloads, key \in MaskKeys :
         wr' = [ wr EXCEPT !.pc["SendMessage"] = "call",
                           !.queue["SendMessage"]
                               = SendWrites(payload, TextMessage, key),
                           !.n["SendMessage"] = @ + 1 ]
    /\ UNCHANGED << conn, applied, hs, fl >>

\* Conn.NextMessage has read a Ping or a Close and its handler comes to the
\* netConn.Write of sendControl
ReadCall ==
    /\ wr.pc["NextMessage"] = "idle"
    /\ wr.n["NextMessage"] < MaxWrites
    /\ \E h \in InlineFrames, key \in MaskKeys :
         \E o \in { InlineWrites(h, key) } :
            wr' = [ wr EXCEPT !.pc["NextMessage"] = "call",
                              !.queue["NextMessage"] = o.bufs,
                              !.teardown = o.teardown,
                              !.n["NextMessage"] = @ + 1 ]
    /\ UNCHANGED << conn, applied, hs, fl >>

\* netConn.Write(buf) takes the write lock of the connection
WriteBegin(p) ==
    /\ wr.pc[p] = "call"
    /\ wr.lock = "none"
    /\ ~wr.netClosed
    /\ wr' = [ wr EXCEPT !.pc[p] = "writing", !.lock = p, !.off = 0,
                         !.handed = Append(@, Head(wr.queue[p])) ]
    /\ UNCHANGED << conn, applied, hs, fl >>

\* the socket takes some of the bytes that remain of the buffer
WriteSome(p) ==
    /\ wr.pc[p] = "writing"
    /\ ~wr.netClosed
    /\ \E k \in 1..(Len(Head(wr.queue[p])) - wr.off) :
         wr' = [ wr EXCEPT !.wire = @ \o SubSeq(Head(wr.queue[p]), wr.off + 1, wr.off + k),
                           !.off = @ + k ]
    /\ UNCHANGED << conn, applied, hs, fl >>

\* netConn.Write returns once the whole buffer is written; the caller goes
\* on to its next Write, to its teardown or to its return
WriteEnd(p) ==
    /\ wr.pc[p] = "writing"
    /\ wr.off = Len(Head(wr.queue[p]))
    /\ wr' = [ wr EXCEPT !.lock = "none", !.off = 0,
                         !.queue[p] = Tail(@),
                         !.pc[p] = IF Tail(wr.queue[p]) # << >> THEN "call"
                                   ELSE IF p = "NextMessage" /\ wr.teardown
                                   THEN "teardown" ELSE "idle" ]
    /\ UNCHANGED << conn, applied, hs, fl >>

\* netConn.Write on a closed connection returns an error, at once or with
\* its buffer written in part, and the caller returns the error
WriteClosed(p) ==
    /\ wr.netClosed
    /\ \/ wr.pc[p] = "call"
       \/ wr.pc[p] = "writing" /\ wr.off < Len(Head(wr.queue[p]))
    /\ wr' = [ wr EXCEPT !.lock = IF @ = p THEN "none" ELSE @, !.off = 0,
                         !.queue[p] = << >>, !.pc[p] = "idle" ]
    /\ UNCHANGED << conn, applied, hs, fl >>

\* the deferred teardown of handleCloseFrame: netConn.Close()
CloseStream ==
    /\ wr.pc["NextMessage"] = "teardown"
    /\ wr' = [ wr EXCEPT !.netClosed = TRUE, !.pc["NextMessage"] = "closed" ]
    /\ UNCHANGED << conn, applied, hs, fl >>

WriteNext ==
    \/ SendCall
    \/ ReadCall
    \/ \E p \in Callers : WriteBegin(p)
    \/ \E p \in Callers : WriteSome(p)
    \/ \E p \in Callers : WriteEnd(p)
    \/ \E p \in Callers : WriteClosed(p)
    \/ CloseStream

WriteSpec == WriteInit /\ [][WriteNext]_vars

\* the concatenation of buffers
RECURSIVE Concat(_)
Concat(bufs) == IF bufs = << >> THEN << >> ELSE Head(bufs) \o Concat(Tail(bufs))

\* s begins t
IsPrefix(s, t) == Len(s) <= Len(t) /\ s = SubSeq(t, 1, Len(s))

\* the buffer is one frame: a header and as many bytes as its length says
WholeFrame(buf) ==
    With(parseFrameHeaders(buf), LAMBDA p :
      /\ p.err = NoErr
      /\ p.h.FIN
      /\ p.h.Mask = ~isServer
      /\ p.at + p.h.PayloadLength = Len(buf))

\* the frames on the wire: the stream is cut where each header says its
\* payload ends; a frame the stream holds in part is left out
RECURSIVE WireFrames(_)
WireFrames(wire) ==
    IF wire = << >> THEN << >>
    ELSE With(parseFrameHeaders(wire), LAMBDA p :
           IF p.err # NoErr \/ p.at + p.h.PayloadLength > Len(wire) THEN << >>
           ELSE << [ Opcode |-> p.h.Opcode, len |-> p.at + p.h.PayloadLength ] >>
                  \o WireFrames(SubSeq(wire, p.at + p.h.PayloadLength + 1, Len(wire))))

(***************************************************************************)
(* FlateSpec: the pools of flate.go, the sliding windows and the read      *)
(* buffers of the flatters.  Connections are made one after the other      *)
(* (newConn, newFlatter), return messages from NextMessage (Conn.read for  *)
(* a plain message, flatter.InFlate for a compressed one) and are closed   *)
(* (Conn.Close, flatter.Close), in any interleaving.  An object is named   *)
(* by its kind and the connection whose newFlatter made it.                *)
(***************************************************************************)
MaxConns == 3

\* messages NextMessage returns, over all connections
MaxInflates == 2

\* the capacity of a sliding window: 32*1024 bytes in the code
WindowCap == 3

ConnIds == 1..MaxConns

\* what flateReaderPool can hold: the flateWriter and the flate.Reader made
\* for a connection; what Get() returns on an empty pool
PoolItems == { "flateWriter", "flate.Reader" } \X ConnIds

NoItem == << "nil", 0 >>

\* sync.Pool.Get: some item of the pool, or nil
PoolGet(pool) == { it \in DOMAIN pool : pool[it] > 0 } \cup { NoItem }

\* the pool without the item Get returned, and after Put
PoolTake(pool, it) == IF it = NoItem THEN pool ELSE [ pool EXCEPT ![it] = @ - 1 ]

PoolPut(pool, it) == [ pool EXCEPT ![it] = @ + 1 ]

\* flate.DefaultCompression, the level newFlatter settles on, and the level
\* field of a flateWriter, which no code sets
DefaultCompression == -1

flateWriterLevel(fws) == 0

\* getFlateWriter with got what flateReaderPool.Get() returned: a reader
\* fails the assertion and is dropped, a writer of another level is put back
getFlateWriter(pool, got, level, c) ==
    IF got[1] # "flateWriter"
    THEN [ pool |-> PoolTake(pool, got), fws |-> << "flateWriter", c >> ]
    ELSE IF flateWriterLevel(got) # level
    THEN [ pool |-> PoolPut(PoolTake(pool, got), got), fws |-> << "flateWriter", c >> ]
    ELSE [ pool |-> PoolTake(pool, got), fws |-> got ]

\* getFlateReader with got what flateReaderPool.Get() returned
getFlateReader(pool, got, c) ==
    IF got[1] # "flate.Reader"
    THEN [ pool |-> PoolTake(pool, got), fr |-> << "flate.Reader", c >> ]
    ELSE [ pool |-> PoolTake(pool, got), fr |-> got ]

\* a slidingWindow: the length of buf and its backing array of WindowCap
\* bytes; make([]byte, 32*1024) has length and capacity 32*1024
NoWindow == [ len |-> 0, arr |-> << >> ]

MadeWindow == [ len |-> WindowCap, arr |-> [ i \in 1..WindowCap |-> 0 ] ]

\* sw.buf
WindowBuf(w) == SubSeq(w.arr, 1, w.len)

\* slidingWindow.write(p)
slidingWindowWrite(w, p) ==
    IF Len(p) >= WindowCap
    THEN [ w EXCEPT !.arr =
             [ i \in 1..WindowCap |->
                 IF i <= w.len THEN p[Len(p) - WindowCap + i] ELSE w.arr[i] ] ]
    ELSE LET spaceLeft == WindowCap - w.len
             spaceNeeded == IF Len(p) > spaceLeft THEN Len(p) - spaceLeft ELSE 0
             kept == w.len - spaceNeeded
         IN  [ len |-> kept + Len(p),
               arr |-> [ i \in 1..WindowCap |->
                           IF i <= kept THEN w.arr[i + spaceNeeded]
                           ELSE IF i <= kept + Len(p) THEN p[i - kept]
                           ELSE w.arr[i] ] ]

\* the compression configurations of the connections
FlateConfigs ==
    { [ Enabled |-> FALSE, IsContextTakeover |-> FALSE ],
      [ Enabled |-> TRUE, IsContextTakeover |-> FALSE ],
      [ Enabled |-> TRUE, IsContextTakeover |-> TRUE ] }

\* the payloads of the compressed messages of the peer: "a", a copy of the
\* last byte of the history, and "bcde"; the payload of its plain messages
FlateStreams == { << 158 >>, << 2 >>, << 157, 156, 155, 154 >> }

PlainPayloads == { << 97 >> }

\* a connection not made yet
NoFlatter ==
    [ at |-> "none", cfg |-> [ Enabled |-> FALSE, IsContextTakeover |-> FALSE ],
      fws |-> NoItem, fr |-> NoItem, sw |-> 0, readBuffer |-> << >>,
      held |-> << >>, closes |-> 0 ]

FlateStart ==
    [ at |-> "flate",
      pool |-> [ it \in PoolItems |-> 0 ],
      swPool |-> [ i \in ConnIds |-> 0 ],
      sw |-> [ i \in ConnIds |-> NoWindow ],
      c |-> [ i \in ConnIds |-> NoFlatter ],
      n |-> 0 ]

FlateInit ==
    /\ Parked
    /\ applied = NoCall
    /\ hs = NoHandshake
    /\ wr = NoWrites
    /\ fl = FlateStart

\* newFlatter(cc) for connection c: getFlateWriter, getFlateReader, then
\* getSlidingWindow under context takeover; g1, g2 and g3 are what the three
\* Get() calls return
newFlatter(f, c, cfg, g1, g2, g3) ==
    LET w == getFlateWriter(f.pool, g1, DefaultCompression, c)
        r == getFlateReader(w.pool, g2, c)
        made == cfg.IsContextTakeover /\ g3 = 0
    IN  [ f EXCEPT !.pool = r.pool,
                   !.swPool = IF cfg.IsContextTakeover /\ g3 # 0
                              THEN [ @ EXCEPT ![g3] = @ - 1 ] ELSE @,
                   !.sw = IF made THEN [ @ EXCEPT ![c] = MadeWindow ] ELSE @,
                   !.c[c] = [ NoFlatter EXCEPT
                                !.at = "open", !.cfg = cfg, !.fws = w.fws, !.fr = r.fr,
                                !.sw = IF ~cfg.IsContextTakeover THEN 0
                                       ELSE IF made THEN c ELSE g3 ] ]

\* newConn(netConn, br, cc, subprotocol, isServer) for the next connection
NewConn ==
    /\ fl.at = "flate"
    /\ \E c \in ConnIds, cfg \in FlateConfigs :
         /\ fl.c[c].at = "none"
         /\ \A b \in 1..(c - 1) : fl.c[b].at # "none"
         /\ IF ~cfg.Enabled
            THEN fl' = [ fl EXCEPT !.c[c] = [ NoFlatter EXCEPT !.at = "open" ] ]
            ELSE \E g1 \in PoolGet(fl.pool) :
                   \E g2 \in PoolGet(getFlateWriter(fl.pool, g1, DefaultCompression, c).pool) :
                     \E g3 \in { i \in ConnIds : fl.swPool[i] > 0 } \cup { 0 } :
                        fl' = newFlatter(fl, c, cfg, g1, g2, g3)
    /\ UNCHANGED << conn, applied, hs, wr >>

\* flatter.InFlate(payload) on connection c: the flatter after the call, the
\* bytes returned (readBuffer.Bytes()) and the error.  readBuffer.Reset()
\* keeps the array of the buffer, which the copy then writes from its start
flatterInFlate(f, c, payload) ==
    LET x == f.c[c]
        dict == IF x.cfg.IsContextTakeover THEN WindowBuf(f.sw[x.sw]) ELSE << >>
        r == FlateRead(payload \o flateTail, dict, << >>)
    IN  IF r.err # NoErr THEN [ f |-> f, payload |-> << >>, err |-> r.err ]
        ELSE [ f |-> [ f EXCEPT
                         !.c[c].readBuffer =
                             r.payload \o SubSeq(@, Len(r.payload) + 1, Len(@)),
                         !.sw = IF x.cfg.IsContextTakeover
                                THEN [ @ EXCEPT ![x.sw] = slidingWindowWrite(@, r.payload) ]
                                ELSE @ ],
               payload |-> r.payload, err |-> NoErr ]

\* NextMessage on a connection returns a message to its caller: a plain one
\* in the buffer Conn.read made, a compressed one in what InFlate returned;
\* a failed inflate ends in closeWithErr, after which the caller reads no more
NextMessageReturn ==
    /\ fl.at = "flate"
    /\ fl.n < MaxInflates
    /\ \E c \in ConnIds :
         /\ fl.c[c].at = "open"
         /\ \/ \E p \in PlainPayloads :
                 fl' = [ fl EXCEPT !.n = @ + 1,
                                   !.c[c].held = Append(@, [ was |-> p, arr |-> "make" ]) ]
            \/ /\ fl.c[c].cfg.Enabled
               /\ \E payload \in FlateStreams :
                    \E o \in { flatterInFlate(fl, c, payload) } :
                       IF o.err # NoErr
                       THEN fl' = [ fl EXCEPT !.c[c].at = "failed" ]
                       ELSE fl' = [ o.f EXCEPT
                                      !.n = @ + 1,
                                      !.c[c].held = Append(@, [ was |-> o.payload,
                                                                arr |-> "readBuffer" ]) ]
    /\ UNCHANGED << conn, applied, hs, wr >>

\* flatter.Close(): putFlateReader, putFlateWriter, and putSlidingWindow
\* under context takeover, which cuts the window to length 0
flatterClose(f, c) ==
    LET x == f.c[c]
    IN  [ f EXCEPT !.pool = PoolPut(PoolPut(@, x.fr), x.fws),
                   !.swPool = IF x.cfg.IsContextTakeover
                              THEN [ @ EXCEPT ![x.sw] = @ + 1 ] ELSE @,
                   !.sw = IF x.cfg.IsContextTakeover
                          THEN [ @ EXCEPT ![x.sw].len = 0 ] ELSE @ ]

\* Conn.Close() on a connection, as often as the caller calls it
CloseFlatter ==
    /\ fl.at = "flate"
    /\ \E c \in ConnIds :
         /\ fl.c[c].at # "none"
         /\ fl.c[c].closes < MaxCloseCalls
         /\ fl' = [ (IF fl.c[c].cfg.Enabled THEN flatterClose(fl, c) ELSE fl) EXCEPT
                      !.c[c].at = "closed", !.c[c].closes = @ + 1 ]
    /\ UNCHANGED << conn, applied, hs, wr >>

FlateNext ==
    \/ NewConn
    \/ NextMessageReturn
    \/ CloseFlatter

FlateSpec == FlateInit /\ [][FlateNext]_vars

\* the connection has been made and Close() has not been called on it
Live(c) == fl.c[c].at \in { "open", "failed" }

\* the bytes a caller finds in the i-th payload NextMessage returned to it
HeldNow(c, i) ==
    IF fl.c[c].held[i].arr = "make" THEN fl.c[c].held[i].was
    ELSE SubSeq(fl.c[c].readBuffer, 1, Len(fl.c[c].held[i].was))

RECURSIVE Inflated(_)
\* the concatenation of the outputs of InFlate among the payloads returned
Inflated(held) ==
    IF held = << >> THEN << >>
    ELSE (IF Head(held).arr = "readBuffer" THEN Head(held).was ELSE << >>)
           \o Inflated(Tail(held))

\* the last n bytes of s, all of s when it is shorter
LastBytes(s, n) == IF Len(s) <= n THEN s ELSE SubSeq(s, Len(s) - n + 1, Len(s))

(***************************************************************************)
(* Vocabulary of the properties.                                           *)
(***************************************************************************)
\* NextMessage has returned a message to its caller
Delivered == ret.call = "NextMessage" /\ ret.err = NoErr

\* NextMessage has returned an error to its caller
Failed == ret.call = "NextMessage" /\ ret.err # NoErr

\* the last step read a whole frame
GotFrame == lastFrame.kind = "frame" /\ lastFrame.rd = "ok"

\* the payload a frame written by this endpoint carries
SentPayload(f) == IF f.Mask THEN toggleMask(f.payload, f.MaskingKey) ELSE f.payload

\* the status code of a Close frame written by this endpoint
SentStatus(f) == Uint16(SubSeq(SentPayload(f), 1, 2))

\* the last step handed exactly one frame to netConn.Write: a Close with
\* this status code
SentClose(code) ==
    /\ Len(sent) = 1
    /\ sent[1].frame.Opcode = CloseFrame
    /\ sent[1].frame.FIN
    /\ Len(SentPayload(sent[1].frame)) >= 2
    /\ SentStatus(sent[1].frame) = code

\* a control frame of this opcode that respects every rule of the protocol
WellFormedControl(h, op) ==
    /\ h.kind = "frame" /\ h.rd = "ok" /\ h.Opcode = op
    /\ h.FIN /\ ~h.RSV1 /\ ~h.RSV2 /\ ~h.RSV3
    /\ h.PayloadLength <= maxControlFramePayloadSize
    /\ h.Mask = isServer

\* the status code and the reason a received Close frame carries
RecvStatus(h) == Uint16(SubSeq(FramePayload(h), 1, 2))

RecvReason(h) == SubSeq(FramePayload(h), 3, h.PayloadLength)

\* the status codes the protocol allows in a Close frame on the wire: 1000
\* to 1004, 1007 to 1011, and the application range 3000 to 4999
WireStatus(code) ==
    \/ code \in { CloseNormal, CloseGoingAway, CloseProtocolError, CloseUnknownData,
                  CloseReserved, CloseMistachedPayloadData, ClosePolicyViolation,
                  CloseFrameTooBig, CloseRequiredExtension, CloseInternalServerErr }
    \/ (code >= minNonCloseStatusCode /\ code <= maxNonCloseStatusCode)

\* the last step read the frame that completes a message: a final Text or
\* Binary frame in Idle, or a final Continuation frame inside a message, with
\* nothing in its header for the engine to refuse
Completes ==
    /\ GotFrame
    /\ lastFrame.FIN /\ ~lastFrame.RSV2 /\ ~lastFrame.RSV3
    /\ lastFrame.Mask = isServer
    /\ \/ /\ readIn = "Idle"
          /\ lastFrame.Opcode \in { TextMessage, BinaryMessage }
          /\ (lastFrame.RSV1 => cc.Enabled)
       \/ /\ readIn = "Assembling"
          /\ lastFrame.Opcode = ContinuationFrame
          /\ ~lastFrame.RSV1

\* the last step read a frame whose header the engine accepts and went on
\* to read its payload from the stream
PayloadRead ==
    /\ lastFrame.kind = "frame"
    /\ lastFrame.PayloadLength > 0
    /\ lastFrame.Opcode \in { ContinuationFrame, TextMessage, BinaryMessage,
                              CloseFrame, PingFrame, PongFrame }
    /\ readIn = "Idle" =>
         /\ ~lastFrame.RSV2 /\ ~lastFrame.RSV3
         /\ ~(lastFrame.RSV1 /\ checkRSV1(lastFrame))
         /\ lastFrame.Mask = isServer
    /\ readIn = "Assembling" =>
         /\ lastFrame.Opcode \notin { TextMessage, BinaryMessage }
         /\ lastFrame.RSV1 => wireRSV1.first
    /\ isControlFrame(lastFrame.Opcode) =>
         /\ lastFrame.FIN /\ ~lastFrame.RSV1
         /\ lastFrame.PayloadLength <= maxControlFramePayloadSize
         /\ lastFrame.Opcode = CloseFrame => lastFrame.PayloadLength >= 2

\* the payload of the message on the wire once reassembled and, when its
\* first fragment has RSV1, inflated
WirePlain ==
    IF wireRSV1.first THEN InFlate(wirePayload)
    ELSE [ payload |-> wirePayload, err |-> NoErr ]

C3_ErrorImpliesClosed ==
    (ret.call \in { "NextMessage", "SendMessage" }
       /\ ret.err \notin { NoErr, ErrInvalidMessageType }) => closed

\* C3, refuted: the stream ends where a header is expected; NextMessage
\* returns ErrUnexpectedClose and the flag is still clear
C3_Witness ==
    /\ Failed
    /\ ret.err = ErrUnexpectedClose
    /\ lastFrame = HeaderEOF
    /\ readIn = "Idle"
    /\ ~closed

(***************************************************************************)
(* C4.  A second call of Close() hands no Close frame to the stream, and   *)
(* the flate pipeline of the connection goes back to its pools at most     *)
(* once.                                                                   *)
(***************************************************************************)
C4_CloseIdempotent ==
    /\ (ret.call = "Close" /\ closeCalls >= 2) => sent = << >>
    /\ flatterPuts <= 1

\* C4, refuted: the second Close() of a connection with compression writes
\* a Close frame again and returns the pipeline again
C4_Witness ==
    /\ ret.call = "Close"
    /\ closeCalls = 2
    /\ Len(sent) = 1
    /\ sent[1].frame.Opcode = CloseFrame
    /\ flatterPuts = 2

(***************************************************************************)
(* C5.  A well-formed Close frame (no payload, or 2..125 bytes of a status *)
(* code that is valid on the wire and a reason in valid UTF-8) is echoed:  *)
(* one Close frame is handed to the stream, with status 1000 for the empty *)
(* frame and the received status otherwise, before this step closes the    *)
(* stream; then the connection is closed and NextMessage returns           *)
(* ErrNormalClose.                                                         *)
(***************************************************************************)
C5_CloseEcho ==
    (/\ WellFormedControl(lastFrame, CloseFrame)
     /\ \/ lastFrame.PayloadLength = 0
        \/ /\ lastFrame.PayloadLength >= 2
           /\ WireStatus(RecvStatus(lastFrame))
           /\ Utf8Valid(RecvReason(lastFrame)))
    =>
      /\ SentClose(IF lastFrame.PayloadLength = 0 THEN CloseNormal
                   ELSE RecvStatus(lastFrame))
      /\ buffered = 0 => sent[1].open
      /\ closed /\ netClosed
      /\ Failed /\ ret.err = ErrNormalClose

\* C5, refuted: a Close frame with status 1011 is not echoed; the step
\* answers with status 1002 and NextMessage returns ErrBadMessage
C5_Witness ==
    /\ WellFormedControl(lastFrame, CloseFrame)
    /\ lastFrame.PayloadLength = 2
    /\ RecvStatus(lastFrame) = CloseInternalServerErr
    /\ readIn = "Idle"
    /\ SentClose(CloseProtocolError)
    /\ Failed
    /\ ret.err = ErrBadMessage

(***************************************************************************)
(* C6.  A control frame with FIN clear, or more than 125 bytes of payload, *)
(* or RSV1 set makes the step hand a Close frame with status 1002 to the   *)
(* stream and, unless that write meets the end of the stream, makes        *)
(* NextMessage return ErrBadMessage.                                       *)
(***************************************************************************)
C6_ControlFrameRules ==
    (/\ lastFrame.kind = "frame"
     /\ isControlFrame(lastFrame.Opcode)
     /\ \/ ~lastFrame.FIN
        \/ lastFrame.PayloadLength > maxControlFramePayloadSize
        \/ lastFrame.RSV1)
    =>
      /\ SentClose(CloseProtocolError)
      /\ Failed
      /\ sent[1].res # "eof" => ret.err = ErrBadMessage

\* C6, refuted: an empty Close frame with FIN clear is echoed with status
\* 1000 and NextMessage returns ErrNormalClose
C6_Witness ==
    /\ lastFrame.kind = "frame"
    /\ lastFrame.Opcode = CloseFrame
    /\ ~lastFrame.FIN
    /\ lastFrame.PayloadLength = 0
    /\ readIn = "Idle"
    /\ SentClose(CloseNormal)
    /\ Failed
    /\ ret.err = ErrNormalClose

(***************************************************************************)
(* C7.  A Close frame, well formed but for a status code that is not       *)
(* accepted (1005, 1006, 1015, or outside the valid set and 3000..4999),   *)
(* makes the step put a Close frame with status 1002 on the stream, which  *)
(* is open when it is written, and NextMessage return ErrBadMessage.       *)
(***************************************************************************)
C7_BadCloseCode ==
    (/\ WellFormedControl(lastFrame, CloseFrame)
     /\ lastFrame.PayloadLength >= 2
     /\ ~WireStatus(RecvStatus(lastFrame))
     /\ buffered = 0)
    =>
      /\ SentClose(CloseProtocolError)
      /\ sent[1].open
      /\ Failed
      /\ sent[1].res # "eof" => ret.err = ErrBadMessage

\* C7, refuted: the Close frame with status 1002 is handed to a stream that
\* the deferred teardown of handleCloseFrame has closed already
C7_Witness ==
    /\ WellFormedControl(lastFrame, CloseFrame)
    /\ lastFrame.PayloadLength = 2
    /\ RecvStatus(lastFrame) = CloseNoStatus
    /\ readIn = "Idle"
    /\ buffered = 0
    /\ SentClose(CloseProtocolError)
    /\ ~sent[1].open
    /\ Failed
    /\ ret.err = ErrBadMessage

(***************************************************************************)
(* C8.  A frame with RSV2 or RSV3 set makes the step hand a Close frame    *)
(* with status 1002 to the stream and NextMessage return an error: its     *)
(* payload joins no message and is not delivered; unless the write meets   *)
(* the end of the stream the connection is closed.                         *)
(***************************************************************************)
C8_ReservedBits ==
    (lastFrame.kind = "frame" /\ (lastFrame.RSV2 \/ lastFrame.RSV3))
    =>
      /\ SentClose(CloseProtocolError)
      /\ Failed
      /\ sent[1].res # "eof" => closed

\* C8, refuted: a final Continuation frame with a reserved bit set completes
\* the message, which is delivered
C8_Witness ==
    /\ Delivered
    /\ readIn = "Assembling"
    /\ lastFrame.Opcode = ContinuationFrame
    /\ lastFrame.RSV2 \/ lastFrame.RSV3
    /\ sent = << >>
    /\ ~closed

(***************************************************************************)
(* C9.  A frame with RSV1 set that is not the first fragment of a Text or  *)
(* Binary message read with compression enabled makes the step hand a     *)
(* Close frame with status 1002 to the stream and NextMessage return an    *)
(* error: nothing of the frame is inflated or delivered.                   *)
(***************************************************************************)
C9_RSV1Rules ==
    (/\ lastFrame.kind = "frame"
     /\ lastFrame.RSV1
     /\ ~(/\ cc.Enabled
          /\ lastFrame.Opcode \in { TextMessage, BinaryMessage }
          /\ readIn = "Idle"))
    =>
      /\ SentClose(CloseProtocolError)
      /\ Failed

\* C9, refuted: within a message whose first fragment carried RSV1 a final
\* Continuation frame with RSV1 set is inflated and the message delivered
C9_Witness ==
    /\ Delivered
    /\ readIn = "Assembling"
    /\ lastFrame.Opcode = ContinuationFrame
    /\ lastFrame.RSV1
    /\ ~lastFrame.RSV2 /\ ~lastFrame.RSV3
    /\ wireRSV1.first
    /\ sent = << >>

C11_OutboundMasking ==
    \A i \in 1..Len(sent) :
      LET buf == sent[i].buf
          plain == sent[i].plain
          len7 == buf[2] % 128
          hl == 2 + (IF len7 = 126 THEN 2 ELSE IF len7 = 127 THEN 8 ELSE 0)
      IN  IF ~isServer
          THEN /\ buf[2] >= 128
               /\ Len(buf) = hl + 4 + Len(plain)
               /\ \A j \in 1..Len(plain) :
                    buf[hl + 4 + j] = XorBits(plain[j], buf[hl + 1 + ((j - 1) % 4)], 8)
          ELSE /\ buf[2] < 128
               /\ Len(buf) = hl + Len(plain)
               /\ SubSeq(buf, hl + 1, Len(buf)) = plain

\* C11, reached: a client answers a Ping of 125 bytes, a payload of whole
\* words and a trailing byte
C11_Witness ==
    /\ ~isServer
    /\ Len(sent) = 1
    /\ sent[1].frame.Opcode = PongFrame
    /\ Len(sent[1].plain) = maxControlFramePayloadSize
    /\ sent[1].plain = FramePayload(lastFrame)

C14_ValidateAfterReassembly ==
    /\ (/\ GotFrame /\ readIn = "Idle"
        /\ lastFrame.Opcode = TextMessage /\ ~lastFrame.FIN
        /\ ~lastFrame.RSV2 /\ ~lastFrame.RSV3
        /\ lastFrame.Mask = isServer
        /\ (lastFrame.RSV1 => cc.Enabled))
       =>
         /\ pc = "frag" /\ ret = NoRet /\ sent = << >>
         /\ initialPayload = FramePayload(lastFrame)
    /\ (/\ Completes /\ readIn = "Assembling" /\ wireOp = TextMessage
        /\ WirePlain.err = NoErr /\ Utf8Valid(WirePlain.payload))
       =>
         /\ Delivered /\ ret.op = TextMessage
         /\ ret.payload = WirePlain.payload
         /\ sent = << >>

\* C14, reached: the code point E2 82 AC cut after its second byte is
\* returned whole, neither fragment being valid UTF-8 alone
C14_Witness ==
    /\ Completes /\ readIn = "Assembling"
    /\ ~wireRSV1.first
    /\ FramePayload(lastFrame) = << 172 >>
    /\ ~Utf8Valid(FramePayload(lastFrame))
    /\ ~Utf8Valid(SubSeq(wirePayload, 1, 2))
    /\ Delivered
    /\ ret = [ call |-> "NextMessage", op |-> TextMessage,
               payload |-> << 226, 130, 172 >>, err |-> NoErr ]

(***************************************************************************)
(* C15.  A Close frame, well formed, with a status code that is valid on   *)
(* the wire and a reason that is not valid UTF-8 makes the step hand a     *)
(* Close frame with status 1007 to the stream.                             *)
(***************************************************************************)
C15_CloseReasonUtf8 ==
    (/\ WellFormedControl(lastFrame, CloseFrame)
     /\ lastFrame.PayloadLength > 2
     /\ WireStatus(RecvStatus(lastFrame))
     /\ ~Utf8Valid(RecvReason(lastFrame)))
    =>
      /\ SentClose(CloseMistachedPayloadData)
      /\ Failed

\* C15, refuted: status 1000 with the reason AC, a lone continuation byte,
\* is answered with 1002 and ErrBadMessage
C15_Witness ==
    /\ WellFormedControl(lastFrame, CloseFrame)
    /\ lastFrame.PayloadLength = 3
    /\ RecvStatus(lastFrame) = CloseNormal
    /\ RecvReason(lastFrame) = << 172 >>
    /\ readIn = "Idle"
    /\ SentClose(CloseProtocolError)
    /\ Failed
    /\ ret.err = ErrBadMessage
    /\ closed

(***************************************************************************)
(* C16.  When the frame that completes a compressed message leaves a       *)
(* payload the inflater rejects, the step hands a Close frame with status  *)
(* 1011 to the stream and NextMessage returns an error, with the           *)
(* connection closed unless the write meets the end of the stream.         *)
(***************************************************************************)
C16_InflateFailure ==
    (Completes /\ wireRSV1.first /\ WirePlain.err # NoErr)
    =>
      /\ SentClose(CloseInternalServerErr)
      /\ Failed
      /\ sent[1].res # "eof" => (closed /\ netClosed)

\* C16, refuted: the inflater rejects a compressed single frame; NextMessage
\* returns its error, nothing is written and the connection stays open
C16_Witness ==
    /\ Completes /\ readIn = "Idle"
    /\ lastFrame.RSV1
    /\ WirePlain.err = ErrFlate
    /\ Failed
    /\ ret.err = ErrFlate
    /\ sent = << >>
    /\ ~closed /\ ~netClosed

(***************************************************************************)
(* C17.  When the stream ends where NextMessage reads a frame header, or   *)
(* while it reads the payload of a frame, in Idle or inside a message,     *)
(* NextMessage returns ErrUnexpectedClose and the step hands nothing to    *)
(* the stream.                                                             *)
(***************************************************************************)
C17_UnexpectedClose ==
    (\/ lastFrame = HeaderEOF
     \/ PayloadRead /\ lastFrame.rd = "eof")
    =>
      /\ Failed
      /\ ret.err = ErrUnexpectedClose
      /\ ret.payload = << >>
      /\ sent = << >>

\* C17, reached: inside a message the stream ends in the payload of a
\* Continuation frame
C17_Witness ==
    /\ PayloadRead /\ lastFrame.rd = "eof"
    /\ readIn = "Assembling"
    /\ lastFrame.Opcode = ContinuationFrame
    /\ Failed
    /\ ret.err = ErrUnexpectedClose
    /\ sent = << >>

(***************************************************************************)
(* C18.  A step of NextMessage that starts on an open stream and answers a *)
(* violation (it hands a Close frame with status 1002, 1007 or 1011 to the *)
(* stream and returns an error) hands that frame to the stream while it is *)
(* still open, and leaves the connection closed and its stream closed      *)
(* whatever the write returns.                                             *)
(***************************************************************************)
C18_BestEffortClose ==
    [][ (/\ ~netClosed
         /\ ret'.call = "NextMessage"
         /\ ret'.err \notin { NoErr, ErrNormalClose }
         /\ sent' # << >>
         /\ sent'[Len(sent')].frame.Opcode = CloseFrame
         /\ SentStatus(sent'[Len(sent')].frame)
              \in { CloseProtocolError, CloseMistachedPayloadData,
                    CloseInternalServerErr })
        =>
          /\ sent'[Len(sent')].open
          /\ closed' /\ netClosed' ]_vars

\* C18, refuted: the write of the Close frame meets the end of the stream;
\* NextMessage returns ErrUnexpectedClose and the connection stays open
C18_Witness ==
    /\ GotFrame /\ readIn = "Idle"
    /\ MaskMismatch(lastFrame)
    /\ SentClose(CloseProtocolError)
    /\ sent[1].open
    /\ sent[1].res = "eof"
    /\ Failed
    /\ ret.err = ErrUnexpectedClose
    /\ ~closed /\ ~netClosed

(***************************************************************************)
(* C19.  SendMessage of a Text or Binary message hands to the stream a     *)
(* frame with RSV1 set and the deflated payload when compression is        *)
(* enabled and the payload is at least CompressionThreshold bytes long,    *)
(* and a frame with RSV1 clear and the payload as it is otherwise.         *)
(***************************************************************************)
C19_CompressionThreshold ==
    (ret.call = "SendMessage" /\ ret.mt \in { TextMessage, BinaryMessage })
    =>
      /\ Len(sent) = 1
      /\ sent[1].frame.Opcode = ret.mt
      /\ IF cc.Enabled /\ Len(ret.payload) >= cc.CompressionThreshold
         THEN sent[1].frame.RSV1 /\ sent[1].plain = DeFlate(ret.payload)
         ELSE ~sent[1].frame.RSV1 /\ sent[1].plain = ret.payload

\* C19, refuted: a payload of exactly CompressionThreshold bytes leaves
\* uncompressed, RSV1 clear
C19_Witness ==
    /\ ret.call = "SendMessage"
    /\ ret.mt = TextMessage
    /\ cc.Enabled
    /\ Len(ret.payload) = cc.CompressionThreshold
    /\ Len(sent) = 1
    /\ ~sent[1].frame.RSV1
    /\ sent[1].plain = ret.payload
    /\ ret.err = NoErr

(***************************************************************************)
(* C20.  SendMessage returns ErrInvalidMessageType exactly when the        *)
(* message type is neither Text nor Binary; such a call returns n = 0,     *)
(* hands nothing to the stream and changes nothing of the connection: its  *)
(* flags, its stream, its configuration, its reassembly state and its      *)
(* flate pipeline are as before the call.                                  *)
(***************************************************************************)
C20_InvalidMessageType ==
    [][ (pc = "ready" /\ ret'.call = "SendMessage")
        =>
          /\ (ret'.err = ErrInvalidMessageType)
               <=> (ret'.mt \notin { TextMessage, BinaryMessage })
          /\ (ret'.mt \notin { TextMessage, BinaryMessage })
               => /\ sent' = << >>
                  /\ ret'.n = 0
                  /\ UNCHANGED << isServer, cc, closed, netClosed, initialHeaders,
                                  initialPayload, nfrag, inEOF, buffered,
                                  closeCalls, flatterPuts >> ]_vars

\* C20, reached: SendMessage with the type Ping on an open connection
C20_Witness ==
    /\ ret.call = "SendMessage"
    /\ ret.mt = PingFrame
    /\ ret.err = ErrInvalidMessageType
    /\ ret.n = 0
    /\ sent = << >>
    /\ ~closed /\ ~netClosed

C22_ServerChecks ==
    Answered =>
        /\ (\/ hs.server.hijacked
            \/ hs.server.handshake # NoHandshakeBytes
            \/ hs.server.conn # NoConn) => ChecksPass
        /\ ~ChecksPass =>
              /\ ~hs.server.hijacked
              /\ hs.server.handshake = NoHandshakeBytes
              /\ hs.server.conn = NoConn
              /\ hs.server.err # NoErr
              /\ hs.server.code \in 400..499
              /\ hs.server.entry = "Upgrade" =>
                    /\ hs.server.w.StatusCode = hs.server.code
                    /\ ~VersionMatches =>
                          hs.server.w.Header["Sec-WebSocket-Version"] = << VERSION >>

\* C22 at work: Upgrade refuses a request for version 8 with status 400 and
\* Sec-WebSocket-Version: 13, the stream not hijacked
C22_Witness ==
    /\ Answered
    /\ hs.rq.Version = << << "8" >> >>
    /\ hs.rq.Method = "GET"
    /\ hs.server.entry = "Upgrade"
    /\ ~hs.server.hijacked
    /\ hs.server.conn = NoConn
    /\ hs.server.code = 400
    /\ hs.server.w.StatusCode = 400
    /\ hs.server.w.Header["Sec-WebSocket-Version"] = << VERSION >>

(***************************************************************************)
(* C23.  On a successful server handshake the subprotocol of the           *)
(* connection is the first entry of the server's list that is among the    *)
(* tokens the client offers, and the 101 response carries it in one        *)
(* Sec-WebSocket-Protocol line; when the list and the tokens share no      *)
(* entry the subprotocol is empty and the response has no such line.       *)
(***************************************************************************)
C23_SubprotocolSelection ==
    (Answered /\ hs.server.hijacked) =>
        /\ hs.server.conn.subprotocol = PreferredProtocol
        /\ ResponseLines("Sec-WebSocket-Protocol")
             = IF PreferredProtocol = << >> THEN << >>
               ELSE << Line("Sec-WebSocket-Protocol", PreferredProtocol \o << "\r\n" >>) >>

\* C23, refuted: the Dialer offers chat and superchat, the server supports
\* chat, and the handshake succeeds with no subprotocol
C23_Witness ==
    /\ Answered
    /\ hs.by = "Dialer"
    /\ hs.d.Subprotocols = << << "chat" >>, << "superchat" >> >>
    /\ hs.u.Subprotocols = << << "chat" >> >>
    /\ hs.server.hijacked
    /\ hs.server.conn.subprotocol = << >>
    /\ ResponseLines("Sec-WebSocket-Protocol") = << >>

(***************************************************************************)
(* C24.  The outcome of the extension negotiation (permessage-deflate      *)
(* accepted or not, and the two no-takeover flags) is the one decided by   *)
(* the first acceptable offer of the request, its offers taken in header   *)
(* order: an offer is acceptable when it is named permessage-deflate and   *)
(* each parameter is client_no_context_takeover,                           *)
(* server_no_context_takeover, server_max_window_bits=15 or                *)
(* client_max_window_bits with or without a value; the other offers are    *)
(* skipped.                                                                *)
(***************************************************************************)
C24_ExtensionOffers ==
    Negotiating => hs.server.flate = Negotiated(Flatten(hs.rq.offers))

\* C24, refuted: the request offers another extension in a first
\* Sec-WebSocket-Extensions line and permessage-deflate in a second one, and
\* permessage-deflate is not accepted
C24_Witness ==
    /\ Negotiating
    /\ hs.rq.offers = << << Offer("x-webkit-deflate-frame", << >>) >>, << PMD(<< >>) >> >>
    /\ ~hs.server.flate.isFlate

(***************************************************************************)
(* C25.  Dial returns a connection only if the response has status 101,    *)
(* the tokens Upgrade: websocket and Connection: Upgrade, the              *)
(* Sec-WebSocket-Accept of the key the client sent, no                     *)
(* Sec-WebSocket-Version header, and no subprotocol when the client        *)
(* offered none; on every other response it returns ErrHandshake and no    *)
(* connection, and the stream is closed.                                   *)
(***************************************************************************)
C25_ClientChecks ==
    DialDone =>
        /\ hs.client.conn # NoConn => ResponseAccepted
        /\ ~ResponseAccepted =>
              /\ hs.client.conn = NoConn
              /\ hs.client.err = ErrHandshake
              /\ hs.client.netClosed

\* C25, refuted: a 101 response with a Sec-WebSocket-Version header that has
\* an empty value gives a connection
C25_Witness ==
    /\ DialDone
    /\ hs.res.StatusCode = 101
    /\ hs.res.Header["Sec-WebSocket-Version"] = << << >> >>
    /\ hs.client.conn # NoConn
    /\ hs.client.err = NoErr
    /\ ~hs.client.netClosed

(***************************************************************************)
(* C26.  The connection of the server has compression enabled iff the      *)
(* Upgrader's configuration enables it and the request carries an          *)
(* acceptable permessage-deflate offer, and the 101 response has a         *)
(* Sec-WebSocket-Extensions line exactly then; the connection of the       *)
(* client has it enabled iff the Dialer's configuration enables it and     *)
(* the response acknowledges permessage-deflate; after a handshake that    *)
(* succeeds between the Dialer and the Upgrader both connections agree.    *)
(***************************************************************************)
C26_CompressionAgreed ==
    /\ (Answered /\ hs.server.hijacked) =>
          /\ hs.server.conn.cc.Enabled
               = (hs.u.CompressionConfig.Enabled
                    /\ Negotiated(Flatten(hs.rq.offers)).isFlate)
          /\ (ResponseLines("Sec-WebSocket-Extensions") # << >>)
               = hs.server.conn.cc.Enabled
    /\ (DialDone /\ hs.client.conn # NoConn) =>
          hs.client.conn.cc.Enabled
            = (hs.d.CompressionConfig.Enabled /\ Negotiated(hs.ack).isFlate)
    /\ BothSucceeded => hs.client.conn.cc.Enabled = hs.server.conn.cc.Enabled

\* C26, refuted: an Upgrader with compression enabled takes a request whose
\* second Sec-WebSocket-Extensions line offers permessage-deflate, and its
\* connection has compression off
C26_Witness ==
    /\ Answered
    /\ hs.server.hijacked
    /\ hs.u.CompressionConfig.Enabled
    /\ hs.rq.offers = << << Offer("x-webkit-deflate-frame", << >>) >>, << PMD(<< >>) >> >>
    /\ ~hs.server.conn.cc.Enabled
    /\ ResponseLines("Sec-WebSocket-Extensions") = << >>

(***************************************************************************)
(* C27.  Every Close frame a step hands to the stream, whether the Close   *)
(* of an error, the echo of the peer's Close or the frame of Close(),      *)
(* carries a status code, and that code is valid on the wire: it is in     *)
(* the fixed set or in 3000..4999, and is none of 1005, 1006 and 1015.     *)
(***************************************************************************)
C27_WireValidCloseCodes ==
    \A i \in 1..Len(sent) :
        sent[i].frame.Opcode = CloseFrame =>
            /\ Len(sent[i].plain) >= 2
            /\ WireStatus(Uint16(SubSeq(sent[i].plain, 1, 2)))
            /\ Uint16(SubSeq(sent[i].plain, 1, 2))
                   \notin { CloseNoStatus, CloseAbnormal, CloseFailedTLS }

\* C27 at work: the peer's Close with the application code 4999 is echoed
\* with that code
C27_Witness ==
    /\ WellFormedControl(lastFrame, CloseFrame)
    /\ lastFrame.PayloadLength = 2
    /\ RecvStatus(lastFrame) = maxNonCloseStatusCode
    /\ SentClose(maxNonCloseStatusCode)
    /\ sent[1].open
    /\ ret.err = ErrNormalClose

C29_MaskInvolution ==
    applied.fn = "toggleMask" =>
        /\ applied.twice = applied.payload
        /\ Len(applied.once) = Len(applied.payload)
        /\ \A i \in 1..Len(applied.payload) :
              applied.once[i]
                = XorBits(applied.payload[i], applied.maskingKey[((i - 1) % 4) + 1], 8)

\* C29 at work: a payload of one word and three trailing bytes, changed by
\* the mask
C29_Witness ==
    /\ applied.fn = "toggleMask"
    /\ Len(applied.payload) = 7
    /\ applied.maskingKey = << 18, 52, 86, 120 >>
    /\ \A i \in 1..7 : applied.once[i] # applied.payload[i]
    /\ applied.twice = applied.payload

(***************************************************************************)
(* C30.  For every header with valid fields (a known opcode, any FIN and   *)
(* reserved bits, no mask or a mask with a 4-byte key), parseFrameHeaders  *)
(* on the bytes of makeFrameHeadersBuf gives the header back and consumes  *)
(* exactly those bytes; the length takes 1 byte up to 125, 3 bytes up to   *)
(* 65535 and 9 bytes above.                                                *)
(***************************************************************************)
C30_HeaderRoundTrip ==
    applied.fn = "parseFrameHeaders" =>
        /\ applied.parsed.err = NoErr
        /\ applied.parsed.h = applied.h
        /\ applied.parsed.at = Len(applied.buf)
        /\ Len(applied.buf)
             = 1 + (IF applied.h.PayloadLength <= 125 THEN 1
                    ELSE IF applied.h.PayloadLength <= 65535 THEN 3 ELSE 9)
                 + (IF applied.h.Mask THEN 4 ELSE 0)

\* C30 at work: a masked header with a length of 65536, followed by payload
\* bytes that the parse leaves in the reader
C30_Witness ==
    /\ applied.fn = "parseFrameHeaders"
    /\ applied.h.PayloadLength = 65536
    /\ applied.h.Mask
    /\ applied.h.RSV1
    /\ applied.rest # << >>
    /\ Len(applied.buf) = 14
    /\ applied.parsed.at = 14
    /\ applied.parsed.h = applied.h

(***************************************************************************)
(* C36.  Once the connection is closed (the Close of the peer has been     *)
(* processed, a violation has been answered, or Close() has been called),  *)
(* no pass of NextMessage returns a message or hands a frame to the        *)
(* stream, whatever the read buffer still holds.                           *)
(***************************************************************************)
C36_ClosedStaysSilent ==
    [][ (/\ closed \/ closeCalls > 0
         /\ lastFrame' # NoFrame)
        =>
          /\ ~(ret'.call = "NextMessage" /\ ret'.err = NoErr)
          /\ sent' = << >> ]_vars

\* C36, refuted: the connection is closed and its stream too; NextMessage
\* finds a whole Text frame in the read buffer and returns its message
C36_Witness ==
    /\ closed /\ netClosed
    /\ buffered > 0
    /\ GotFrame /\ readIn = "Idle"
    /\ lastFrame.Opcode = TextMessage
    /\ Delivered
    /\ ret.op = TextMessage
    /\ ret.payload = << 97 >>

(***************************************************************************)
(* C37.  When the read of a frame header fails, with the end of the stream *)
(* or with any other error, in Idle or inside a message, NextMessage       *)
(* returns an error to its caller: it does not go on to the fields of the  *)
(* header it has not got.                                                  *)
(***************************************************************************)
C37_HeaderErrorReturned ==
    lastFrame \in { HeaderEOF, HeaderErr } => (Failed /\ pc # "panic")

\* C37, refuted: inside a message the read of the next header fails with an
\* error that is not the end of the stream; NextMessage reads the opcode of
\* the nil header and panics
C37_Witness ==
    /\ lastFrame = HeaderErr
    /\ readIn = "Assembling"
    /\ pc = "panic"
    /\ ret = NoRet

(***************************************************************************)
(* C38.  Inside a fragmented message too, a frame whose mask bit is not    *)
(* the one the role expects makes the step hand a Close frame with status  *)
(* 1002 to the stream and NextMessage return an error; no unmasking is     *)
(* applied to a frame that came without a key.                             *)
(***************************************************************************)
C38_MaskDirectionAssembling ==
    (/\ lastFrame.kind = "frame"
     /\ readIn = "Assembling"
     /\ lastFrame.Mask # isServer)
    =>
      /\ pc # "panic"
      /\ SentClose(CloseProtocolError)
      /\ Failed

\* C38, refuted: a server inside a message reads an unmasked Continuation
\* frame that breaks no other rule; toggleMask is called with the nil key
\* and panics
C38_Witness ==
    /\ isServer
    /\ readIn = "Assembling"
    /\ GotFrame
    /\ lastFrame.Opcode = ContinuationFrame
    /\ ~lastFrame.Mask /\ ~lastFrame.RSV1 /\ ~lastFrame.RSV2 /\ ~lastFrame.RSV3
    /\ pc = "panic"
    /\ sent = << >>

(***************************************************************************)
(* C39.  The subprotocol of a connection Dial returns is empty or one of   *)
(* the subprotocols the Dialer offered; a response that names another one  *)
(* makes Dial return ErrHandshake and no connection.                       *)
(***************************************************************************)
C39_SubprotocolOffered ==
    DialDone =>
        /\ hs.client.conn # NoConn =>
              \/ hs.client.conn.subprotocol = << >>
              \/ \E i \in 1..Len(hs.d.Subprotocols) :
                    hs.client.conn.subprotocol = hs.d.Subprotocols[i]
        /\ (/\ hs.res.Header["Sec-WebSocket-Protocol"] # << >>
            /\ hs.res.Header["Sec-WebSocket-Protocol"][1] # << >>
            /\ \A i \in 1..Len(hs.d.Subprotocols) :
                  hs.res.Header["Sec-WebSocket-Protocol"][1] # hs.d.Subprotocols[i])
           => (hs.client.conn = NoConn /\ hs.client.err = ErrHandshake)

\* C39, refuted: the Dialer offers chat, the response names mqtt, and Dial
\* returns a connection whose subprotocol is mqtt
C39_Witness ==
    /\ DialDone
    /\ hs.d.Subprotocols = << << "chat" >> >>
    /\ hs.res.StatusCode = 101
    /\ hs.res.Header["Sec-WebSocket-Protocol"] = << << "mqtt" >> >>
    /\ hs.client.conn # NoConn
    /\ hs.client.conn.subprotocol = << "mqtt" >>
    /\ hs.client.err = NoErr

(***************************************************************************)
(* C40.  After a handshake that leaves compression enabled, an end whose   *)
(* connection has context takeover off, and so inflates each message with  *)
(* an empty dictionary, has the matching parameter in the extension line   *)
(* exchanged: the acknowledgment of such a server carries                  *)
(* client_no_context_takeover, and the acknowledgment such a client        *)
(* obtained carries server_no_context_takeover.                            *)
(***************************************************************************)
C40_TakeoverAgreed ==
    /\ (/\ Answered /\ hs.server.hijacked
        /\ hs.server.conn.cc.Enabled
        /\ ~hs.server.conn.cc.IsContextTakeover)
       => \E i \in 1..Len(ResponseLines("Sec-WebSocket-Extensions")) :
             \E k \in 1..Len(ResponseLines("Sec-WebSocket-Extensions")[i].value) :
                ResponseLines("Sec-WebSocket-Extensions")[i].value[k]
                    = "client_no_context_takeover"
    /\ (/\ DialDone /\ hs.client.conn # NoConn
        /\ hs.client.conn.cc.Enabled
        /\ ~hs.client.conn.cc.IsContextTakeover)
       => \E i \in 1..Len(hs.ack) :
             /\ hs.ack[i].name = "permessage-deflate"
             /\ \E k \in 1..Len(hs.ack[i].params) : hs.ack[i].params[k] = SNCT

\* C40, refuted: an Upgrader configured without context takeover takes the
\* bare offer of a peer; its connection inflates without a dictionary and
\* its acknowledgment asks nothing of the client
C40_Witness ==
    /\ Answered /\ hs.server.hijacked
    /\ hs.by = "peer"
    /\ hs.u.CompressionConfig.Enabled
    /\ ~hs.u.CompressionConfig.IsContextTakeover
    /\ hs.rq.offers = << << PMD(<< >>) >> >>
    /\ hs.server.conn.cc.Enabled
    /\ ~hs.server.conn.cc.IsContextTakeover
    /\ Len(ResponseLines("Sec-WebSocket-Extensions")) = 1
    /\ ResponseLines("Sec-WebSocket-Extensions")[1].value
          = << "permessage-deflate", "\r\n" >>


(***************************************************************************)
(* C32: for the request key dGhlIHNhbXBsZSBub25jZQ== the handshake the     *)
(* server writes carries Sec-WebSocket-Accept s3pPLMBiTxaQ9kYGzzhZRbK+xOo=,*)
(* and in general the value the server writes and the value Dial accepts   *)
(* are the base64 of the SHA-1 of the key sent followed by the GUID: the   *)
(* known digests of the keys of the model.                                 *)
(***************************************************************************)
\* base64(SHA1(key || GUID)) of the keys of the model, as published (RFC
\* 6455 section 1.3) and as computed apart from the model
KnownAccept ==
    IF hs.rq.Key = "good" THEN "s3pPLMBiTxaQ9kYGzzhZRbK+xOo="
    ELSE "C/0nmHhBztSRGR1CwL6Tf4ZjwpY="

C35_CallerPayloadKept ==
    ret.call = "SendMessage" => ret.caller = ret.payload

C35_Witness ==
    /\ ret.call = "SendMessage"
    /\ ~isServer
    /\ ~cc.Enabled
    /\ ret.err = NoErr
    /\ ret.payload = << 97, 97 >>
    /\ ret.caller = << 115, 85 >>
    /\ sent[1].frame.payload = << 115, 85 >>

(***************************************************************************)
(* C31: the payload NextMessage returned is never modified by a later      *)
(* NextMessage on the same connection: every payload returned so far, of a *)
(* plain or of a compressed message, still holds the bytes it was returned *)
(* with.                                                                   *)
(***************************************************************************)
C31_ReturnedPayloadKept ==
    fl.at = "flate" =>
      \A c \in ConnIds : \A i \in 1..Len(fl.c[c].held) :
          HeldNow(c, i) = fl.c[c].held[i].was

C31_Witness ==
    /\ fl.at = "flate"
    /\ fl.c[1].at = "open"
    /\ fl.c[1].cfg.Enabled
    /\ ~fl.c[1].cfg.IsContextTakeover
    /\ fl.c[1].held = << [ was |-> << 97 >>, arr |-> "readBuffer" ],
                         [ was |-> << 98, 99, 100, 101 >>, arr |-> "readBuffer" ] >>
    /\ HeldNow(1, 1) = << 98 >>

(***************************************************************************)
(* C33: on a connection with context takeover the sliding window holds     *)
(* exactly the last min(32 KiB, total) bytes of all the outputs inflated   *)
(* so far on the connection: nothing before the first inflate, the tail of *)
(* an output of 32 KiB or more, and also in a window that came from the    *)
(* pool.                                                                   *)
(***************************************************************************)
C33_WindowHoldsLastOutputs ==
    fl.at = "flate" =>
      \A c \in ConnIds :
          (fl.c[c].at = "open" /\ fl.c[c].cfg.Enabled /\ fl.c[c].cfg.IsContextTakeover)
          => WindowBuf(fl.sw[fl.c[c].sw]) = LastBytes(Inflated(fl.c[c].held), WindowCap)

C33_Witness ==
    /\ fl.at = "flate"
    /\ fl.c[1].at = "closed"
    /\ fl.c[1].held = << >>
    /\ fl.c[2].at = "open"
    /\ fl.c[2].cfg.IsContextTakeover
    /\ fl.c[2].sw = 1
    /\ fl.swPool[1] = 0
    /\ fl.c[2].held = << [ was |-> << 98, 99, 100, 101 >>, arr |-> "readBuffer" ] >>
    /\ WindowBuf(fl.sw[1]) = << >>

(***************************************************************************)
(* C34: however connections are made and closed, no deflater, inflater or  *)
(* sliding window is held by two live connections at once, no pool holds   *)
(* an object a live connection still holds, and no pool holds an object    *)
(* twice.                                                                  *)
(***************************************************************************)
C34_PooledObjectsExclusive ==
    fl.at = "flate" =>
      /\ \A a, b \in ConnIds :
           (a # b /\ Live(a) /\ Live(b) /\ fl.c[a].cfg.Enabled /\ fl.c[b].cfg.Enabled)
           => /\ fl.c[a].fws # fl.c[b].fws
              /\ fl.c[a].fr # fl.c[b].fr
              /\ fl.c[a].sw # 0 => fl.c[a].sw # fl.c[b].sw
      /\ \A it \in PoolItems : fl.pool[it] <= 1
      /\ \A i \in ConnIds : fl.swPool[i] <= 1
      /\ \A c \in ConnIds :
           (Live(c) /\ fl.c[c].cfg.Enabled)
           => /\ fl.pool[fl.c[c].fws] = 0
              /\ fl.pool[fl.c[c].fr] = 0
              /\ fl.c[c].sw # 0 => fl.swPool[fl.c[c].sw] = 0

C34_Witness ==
    /\ fl.at = "flate"
    /\ fl.c[1].at = "closed"
    /\ fl.c[1].closes = 2
    /\ fl.c[2].at = "open"
    /\ fl.c[3].at = "open"
    /\ fl.c[2].fr = << "flate.Reader", 1 >>
    /\ fl.c[3].fr = << "flate.Reader", 1 >>
    /\ fl.c[2].sw = 1
    /\ fl.c[3].sw = 1
    /\ fl.c[2].fws # fl.c[3].fws
====
